---- MODULE Spec2Model ----
(***************************************************************************)
(* kubedash mock backend: the in-memory resource stores (namespace, node,  *)
(* pod, deployment, service) and the deployment scaling operation.         *)
(*                                                                         *)
(* Go strings are TLA+ strings; Len, SubSeq and \o act on them bytewise.   *)
(* A time.Time is a record [sec, off]: sec counts the seconds since        *)
(* 2024-07-01T00:00:00Z, off is the zone offset in seconds.  A             *)
(* time.Duration is a whole number of seconds.                             *)
(***************************************************************************)
EXTENDS Integers, Sequences, FiniteSets, TLC

VARIABLES
    deployItems,   \* deploy.Store.items : key -> record
    ret,           \* the last completed call and what it returned
    nScaled,       \* history: key -> number of successful Scale calls on it
    mu,            \* deploy.Store.mu : [w |-> the thread holding it for writing
                   \*   (0: none), r |-> the threads holding it for reading]
    th,            \* thread -> the store call it runs, its position in it and
                   \*   its locals
    committed,     \* history: key -> the records the store has held under it
    nsItems,       \* namespace.Store.items : name -> record
    podItems,      \* pod.Store.items : key -> record
    svcItems,      \* service.Store.items : name -> record
    nodeItems,     \* node.Store.items : name -> record
    nsMu,          \* namespace.Store.mu, as mu
    nsTh,          \* thread -> the namespace store call it runs, its position
                   \*   in it and its locals
    locks,         \* store -> its Store.mu : [w, r] as mu, p |-> the goroutines
                   \*   blocked in Lock
    calls,         \* goroutine -> the store operation it runs as the lock
                   \*   calls it makes, and its position in them
    logRecords,    \* logs.Store.logs : the log records, in slice order
    logCalls,      \* history: the AppendLog calls made, in call order
    eventRecords,  \* logs.Store.events : the event records, in slice order
    kcItems,       \* kubeconfig.Store.items : the summaries, in slice order
    kcAdds,        \* history: the summaries given to Add, in call order
    kcView,        \* the slice the last kubeconfig List returned, as its
                   \*   caller holds it: [items, shared |-> whether it is
                   \*   the store's own backing array]
    twin,          \* a second logs.Store built at the same instant and
                   \*   given the same calls: [logs, events]
    nsHeld,        \* the labels map a caller of the namespace store holds:
                   \*   [name |-> the namespace it came with, labels,
                   \*   shared |-> whether it is the stored record's map]
    df             \* the DescribeFilters call in progress: its position,
                   \*   what it has read, and the store states since it began

(***************************************************************************)
(* Bounds of the model.                                                    *)
(***************************************************************************)
MaxScales == 2     \* successful Scale calls explored in one behaviour
NumThreads == 3    \* request goroutines calling the deployment store at once
NumCallers == 2    \* request goroutines calling any store's operations at once
MaxAppends == 42   \* AppendLog calls explored in one behaviour
MaxDiagAppends == 2    \* AppendLog calls explored beside AppendEvent calls
MaxEventAppends == 2   \* AppendEvent calls explored in one behaviour
MaxTwinAppends == 1    \* appends of each kind to each of two stores side by side
MaxImports == 3        \* summaries added to the import ledger in one behaviour

(***************************************************************************)
(* Strings.                                                                *)
(***************************************************************************)
\* The bytes the model's strings are made of, in ascending byte order.
Alphabet == " +-./0123456789:ABCDEFGHIJKLMNOPQRSTUVWXYZ_abcdefghijklmnopqrstuvwxyz"

CharAt(s, i) == SubSeq(s, i, i)

ByteRank == [c \in {CharAt(Alphabet, i) : i \in 1..Len(Alphabet)} |->
                CHOOSE i \in 1..Len(Alphabet) : CharAt(Alphabet, i) = c]

Digits == {"0", "1", "2", "3", "4", "5", "6", "7", "8", "9"}

\* The number a string of digits writes.
RECURSIVE Number(_)
Number(s) ==
    IF s = "" THEN 0
    ELSE 10 * Number(SubSeq(s, 1, Len(s) - 1))
         + (CHOOSE n \in 0..9 : ToString(n) = CharAt(s, Len(s)))

IsDigits(s) == \A i \in 1..Len(s) : CharAt(s, i) \in Digits

MinOf(S) == CHOOSE x \in S : \A y \in S : x <= y

\* a < b on Go strings: bytewise lexicographic order.
StrLess(a, b) ==
    LET n == IF Len(a) < Len(b) THEN Len(a) ELSE Len(b)
        diff == {i \in 1..n : CharAt(a, i) # CharAt(b, i)}
    IN  IF diff = {} THEN Len(a) < Len(b)
        ELSE ByteRank[CharAt(a, MinOf(diff))] < ByteRank[CharAt(b, MinOf(diff))]

\* strings.Compare
Compare(a, b) == IF a = b THEN 0 ELSE IF StrLess(a, b) THEN 0 - 1 ELSE 1

(***************************************************************************)
(* sort.Slice on a slice shorter than 12 elements is an insertion sort     *)
(* driven by the caller's less function.                                   *)
(***************************************************************************)
\* less is the caller's less function, tabulated over pairs of elements.
SortSlice(s, less) ==
    LET RECURSIVE Insert(_, _)
        \* x moves left from the end while it is less than its left neighbour
        Insert(sorted, x) ==
            IF sorted = <<>> THEN <<x>>
            ELSE IF less[<<x, sorted[Len(sorted)]>>]
                 THEN Append(Insert(SubSeq(sorted, 1, Len(sorted) - 1), x),
                             sorted[Len(sorted)])
                 ELSE Append(sorted, x)
        RECURSIVE Sort(_)
        Sort(t) == IF t = <<>> THEN <<>>
                   ELSE Insert(Sort(SubSeq(t, 1, Len(t) - 1)), t[Len(t)])
    IN  Sort(s)

\* The table of a less function over the elements of a slice.
Elems(s) == {s[i] : i \in 1..Len(s)}

\* The orders in which a range over a Go map with key set S may visit it.
RECURSIVE MapOrders(_)
MapOrders(S) ==
    IF S = {} THEN {<<>>}
    ELSE UNION {{<<k>> \o p : p \in MapOrders(S \ {k})} : k \in S}

(***************************************************************************)
(* Time.                                                                   *)
(***************************************************************************)
Second == 1
Minute == 60 * Second
Hour   == 60 * Minute

\* t.Add(d)
Add(t, d) == [t EXCEPT !.sec = @ + d]
\* t.Sub(u)
Sub(t, u) == t.sec - u.sec
\* t.UTC()
UTC(t) == [t EXCEPT !.off = 0]

Pad2(n) == IF n < 10 THEN "0" \o ToString(n) ELSE ToString(n)

\* t.Format(time.RFC3339), for instants of July 2024
FormatRFC3339(t) ==
    LET local == t.sec + t.off
        abs   == IF t.off < 0 THEN 0 - t.off ELSE t.off
        zone  == IF t.off = 0 THEN "Z"
                 ELSE (IF t.off < 0 THEN "-" ELSE "+")
                      \o Pad2(abs \div Hour) \o ":" \o Pad2((abs % Hour) \div Minute)
    IN  "2024-07-" \o Pad2(local \div (24 * Hour) + 1)
        \o "T" \o Pad2((local % (24 * Hour)) \div Hour)
        \o ":" \o Pad2((local % Hour) \div Minute)
        \o ":" \o Pad2(local % Minute) \o zone

\* formatAge without the test for a negative duration
formatAgeSigned(d0) ==
    LET days    == d0 \div (24 * Hour)
        d1      == d0 - days * 24 * Hour
        hours   == d1 \div Hour
        d2      == d1 - hours * Hour
        minutes == d2 \div Minute
    IN  IF days > 0 THEN ToString(days) \o "d" \o ToString(hours) \o "h"
        ELSE IF hours > 0 THEN ToString(hours) \o "h" \o ToString(minutes) \o "m"
        ELSE ToString(minutes) \o "m" \o ToString((d2 \div Second) % 60) \o "s"

\* formatAge leaving out a second unit that is zero
formatAgeNonZero(d0) ==
    LET d       == IF d0 < 0 THEN 0 ELSE d0
        days    == d \div (24 * Hour)
        d1      == d - days * 24 * Hour
        hours   == d1 \div Hour
        d2      == d1 - hours * Hour
        minutes == d2 \div Minute
        secs    == (d2 \div Second) % 60
        unit(n, u) == IF n = 0 THEN "" ELSE ToString(n) \o u
    IN  IF days > 0 THEN ToString(days) \o "d" \o unit(hours, "h")
        ELSE IF hours > 0 THEN ToString(hours) \o "h" \o unit(minutes, "m")
        ELSE ToString(minutes) \o "m" \o unit(secs, "s")

\* formatAge: the two largest units of a duration, negative durations as zero
formatAge(d0) ==
    LET d       == IF d0 < 0 THEN 0 ELSE d0
        days    == d \div (24 * Hour)
        d1      == d - days * 24 * Hour
        hours   == d1 \div Hour
        d2      == d1 - hours * Hour
        minutes == d2 \div Minute
    IN  IF days > 0 THEN ToString(days) \o "d" \o ToString(hours) \o "h"
        ELSE IF hours > 0 THEN ToString(hours) \o "h" \o ToString(minutes) \o "m"
        ELSE ToString(minutes) \o "m" \o ToString((d2 \div Second) % 60) \o "s"

\* The instant the server's stores are constructed at: 2024-07-12T12:00:00Z.
StartTime == [sec |-> 11 * 24 * Hour + 12 * Hour, off |-> 0]

\* The reference instants callers pass: the construction instant, and one
\* minute later as read by a clock in the +08:00 zone.
Nows == {StartTime, [sec |-> StartTime.sec + Minute, off |-> 8 * Hour]}

(***************************************************************************)
(* Deployment store.                                                       *)
(***************************************************************************)
ErrNil             == "nil"
ErrNotFound        == "deployment not found"
ErrInvalidReplicas == "invalid replica count"

MaxReplicas == 200

key(namespace, name) == namespace \o "/" \o name

defaultSeed(now) ==
    LET base == Add(now, 0 - 72 * Hour) IN
    << [ Summary |-> [ Name |-> "frontend", Namespace |-> "default",
                       ReadyReplicas |-> 4, UpdatedReplicas |-> 4, DesiredReplicas |-> 4,
                       Strategy |-> "RollingUpdate",
                       Images |-> <<"registry.local/frontend:2.3.1">>,
                       Age |-> "", Status |-> "" ],
         CreatedAt  |-> base,
         Revision   |-> 7,
         Labels     |-> ("app" :> "frontend") @@ ("version" :> "v2"),
         Selector   |-> ("app" :> "frontend"),
         Containers |-> << [Name |-> "frontend", Image |-> "registry.local/frontend:2.3.1",
                            Ports |-> <<80, 443>>] >>,
         Conditions |-> << [Type |-> "Available", Status |-> "True",
                            Message |-> "Deployment has minimum availability.",
                            LastUpdate |-> Add(now, 0 - 2 * Hour),
                            LastTransition |-> Add(base, 12 * Hour)] >>,
         LastUpdate |-> Add(now, 0 - 30 * Minute) ],
       [ Summary |-> [ Name |-> "backend", Namespace |-> "prod",
                       ReadyReplicas |-> 5, UpdatedReplicas |-> 3, DesiredReplicas |-> 6,
                       Strategy |-> "RollingUpdate",
                       Images |-> <<"registry.local/backend:1.12.0">>,
                       Age |-> "", Status |-> "" ],
         CreatedAt  |-> Add(base, 0 - 24 * Hour),
         Revision   |-> 21,
         Labels     |-> ("app" :> "backend") @@ ("tier" :> "api"),
         Selector   |-> ("app" :> "backend"),
         Containers |-> << [Name |-> "api", Image |-> "registry.local/backend:1.12.0",
                            Ports |-> <<8080>>] >>,
         Conditions |-> << [Type |-> "Progressing", Status |-> "True",
                            Message |-> "ReplicaSet backend-546cdfd756 is progressing.",
                            LastUpdate |-> Add(now, 0 - 10 * Minute),
                            LastTransition |-> Add(now, 0 - 10 * Minute)] >>,
         LastUpdate |-> Add(now, 0 - 5 * Minute) ],
       [ Summary |-> [ Name |-> "batch-jobs", Namespace |-> "batch",
                       ReadyReplicas |-> 0, UpdatedReplicas |-> 0, DesiredReplicas |-> 2,
                       Strategy |-> "Recreate",
                       Images |-> <<"registry.local/batch:0.5.0">>,
                       Age |-> "", Status |-> "" ],
         CreatedAt  |-> Add(base, 0 - 6 * Hour),
         Revision   |-> 4,
         Labels     |-> ("app" :> "batch-jobs") @@ ("team" :> "data"),
         Selector   |-> ("app" :> "batch-jobs"),
         Containers |-> << [Name |-> "runner", Image |-> "registry.local/batch:0.5.0",
                            Ports |-> <<>>] >>,
         Conditions |-> << [Type |-> "Available", Status |-> "False",
                            Message |-> "Deployment does not have minimum availability.",
                            LastUpdate |-> Add(now, 0 - 50 * Minute),
                            LastTransition |-> Add(now, 0 - 50 * Minute)] >>,
         LastUpdate |-> Add(now, 0 - 45 * Minute) ] >>

\* NewStore: every seed record under key(namespace, name), a later one
\* replacing an earlier one with the same key.
NewStore(now) ==
    LET seed == defaultSeed(now)
        keyOf(i) == key(seed[i].Summary.Namespace, seed[i].Summary.Name)
    IN  [k \in {keyOf(i) : i \in 1..Len(seed)} |->
            seed[CHOOSE i \in 1..Len(seed) :
                    keyOf(i) = k /\ \A j \in 1..Len(seed) : keyOf(j) = k => j <= i]]

\* decorateSummary testing ready == 0 before ready == desired
decorateSummaryDownFirst(sum, created, now) ==
    LET out == [sum EXCEPT !.Age = formatAge(Sub(now, created))] IN
    IF out.ReadyReplicas = 0 THEN [out EXCEPT !.Status = "Down"]
    ELSE IF out.ReadyReplicas = out.DesiredReplicas THEN [out EXCEPT !.Status = "Healthy"]
    ELSE [out EXCEPT !.Status = "Updating"]

decorateSummary(sum, created, now) ==
    LET out == [sum EXCEPT !.Age = formatAge(Sub(now, created))] IN
    IF out.ReadyReplicas = out.DesiredReplicas THEN [out EXCEPT !.Status = "Healthy"]
    ELSE IF out.ReadyReplicas = 0 THEN [out EXCEPT !.Status = "Down"]
    ELSE [out EXCEPT !.Status = "Updating"]

\* copyMap: nil for an empty map (a nil map reads as the empty map)
copyMap(src) == IF DOMAIN src = {} THEN <<>> ELSE [k \in DOMAIN src |-> src[k]]

toDetail(rec, now) ==
    [ Summary     |-> decorateSummary(rec.Summary, rec.CreatedAt, now),
      Labels      |-> copyMap(rec.Labels),
      Selector    |-> copyMap(rec.Selector),
      Containers  |-> rec.Containers,
      Conditions  |-> [i \in 1..Len(rec.Conditions) |->
                         [ Type           |-> rec.Conditions[i].Type,
                           Status         |-> rec.Conditions[i].Status,
                           Message        |-> rec.Conditions[i].Message,
                           LastUpdate     |-> FormatRFC3339(rec.Conditions[i].LastUpdate),
                           LastTransition |-> FormatRFC3339(rec.Conditions[i].LastTransition) ]],
      Revision    |-> rec.Revision,
      LastUpdated |-> FormatRFC3339(rec.LastUpdate) ]

\* Detail{}: the zero value returned beside an error
ZeroDetail ==
    [ Summary     |-> [ Name |-> "", Namespace |-> "", ReadyReplicas |-> 0,
                        UpdatedReplicas |-> 0, DesiredReplicas |-> 0, Strategy |-> "",
                        Images |-> <<>>, Age |-> "", Status |-> "" ],
      Labels |-> <<>>, Selector |-> <<>>, Containers |-> <<>>, Conditions |-> <<>>,
      Revision |-> 0, LastUpdated |-> "" ]

\* the less function List hands to sort.Slice
SummaryLess(a, b) ==
    IF a.Namespace = b.Namespace THEN Compare(a.Name, b.Name) < 0
    ELSE Compare(a.Namespace, b.Namespace) < 0

\* Store.List sorting by name without looking at the namespace
ListByName(items, now, order) ==
    LET out == [i \in 1..Len(order) |->
                  decorateSummary(items[order[i]].Summary, items[order[i]].CreatedAt, now)]
    IN  SortSlice(out, [p \in Elems(out) \X Elems(out) |-> Compare(p[1].Name, p[2].Name) < 0])

\* Store.List: the map is visited in `order`, then the views are sorted.
List(items, now, order) ==
    LET out == [i \in 1..Len(order) |->
                  decorateSummary(items[order[i]].Summary, items[order[i]].CreatedAt, now)]
    IN  SortSlice(out, [p \in Elems(out) \X Elems(out) |-> SummaryLess(p[1], p[2])])

\* No key: what the range loop of Get and Scale ends with when no record
\* has the name.
NoKey == ""

\* Get and Scale range over the map and stop at the first record with the
\* given name.  The map's iteration order is unspecified, so that record may
\* be any of the records with the name; NoKey when there is none.
FirstNamed(items, name) ==
    LET hits == {k \in DOMAIN items : items[k].Summary.Name = name}
    IN  IF hits = {} THEN {NoKey} ELSE hits

\* Store.Get looking its argument up as a key of the map
GetByKey(items, name, now, first) ==
    IF name \notin DOMAIN items THEN [val |-> ZeroDetail, err |-> ErrNotFound]
    ELSE [val |-> toDetail(items[name], now), err |-> ErrNil]

\* Store.Get, the loop stopping at `first`
Get(items, name, now, first) ==
    IF first = NoKey THEN [val |-> ZeroDetail, err |-> ErrNotFound]
    ELSE [val |-> toDetail(items[first], now), err |-> ErrNil]

\* ScaleRecord without the clamp of the ready count
ScaleRecordNoReadyClamp(rec, replicas, now) ==
    LET r1 == [rec EXCEPT !.Summary.DesiredReplicas = replicas]
        r3 == IF r1.Summary.UpdatedReplicas > replicas
              THEN [r1 EXCEPT !.Summary.UpdatedReplicas = replicas] ELSE r1
        r4 == [r3 EXCEPT !.LastUpdate = now]
    IN  [r4 EXCEPT !.Revision = @ + 1]

\* ScaleRecord bumping the revision only when the desired count changes
ScaleRecordRevisionOnChange(rec, replicas, now) ==
    LET r1 == [rec EXCEPT !.Summary.DesiredReplicas = replicas]
        r2 == IF r1.Summary.ReadyReplicas > replicas
              THEN [r1 EXCEPT !.Summary.ReadyReplicas = replicas] ELSE r1
        r3 == IF r2.Summary.UpdatedReplicas > replicas
              THEN [r2 EXCEPT !.Summary.UpdatedReplicas = replicas] ELSE r2
        r4 == [r3 EXCEPT !.LastUpdate = now]
    IN  IF rec.Summary.DesiredReplicas = replicas THEN r4
        ELSE [r4 EXCEPT !.Revision = @ + 1]

\* ScaleRecord leaving the last-update instant as it was
ScaleRecordKeepsLastUpdate(rec, replicas, now) ==
    LET r1 == [rec EXCEPT !.Summary.DesiredReplicas = replicas]
        r2 == IF r1.Summary.ReadyReplicas > replicas
              THEN [r1 EXCEPT !.Summary.ReadyReplicas = replicas] ELSE r1
        r3 == IF r2.Summary.UpdatedReplicas > replicas
              THEN [r2 EXCEPT !.Summary.UpdatedReplicas = replicas] ELSE r2
    IN  [r3 EXCEPT !.Revision = @ + 1]

\* The body of Scale's loop on the record it found (a local copy).
\* Scale resetting the conditions of the record
ScaleRecordDropsConditions(rec, replicas, now) ==
    LET r1 == [rec EXCEPT !.Summary.DesiredReplicas = replicas]
        r2 == IF r1.Summary.ReadyReplicas > replicas
              THEN [r1 EXCEPT !.Summary.ReadyReplicas = replicas] ELSE r1
        r3 == IF r2.Summary.UpdatedReplicas > replicas
              THEN [r2 EXCEPT !.Summary.UpdatedReplicas = replicas] ELSE r2
        r4 == [r3 EXCEPT !.LastUpdate = now, !.Conditions = <<>>]
    IN  [r4 EXCEPT !.Revision = @ + 1]

\* Scale making every desired replica ready at once
ScaleRecordReadyFollows(rec, replicas, now) ==
    LET r1 == [rec EXCEPT !.Summary.DesiredReplicas = replicas,
                          !.Summary.ReadyReplicas = replicas]
        r3 == IF r1.Summary.UpdatedReplicas > replicas
              THEN [r1 EXCEPT !.Summary.UpdatedReplicas = replicas] ELSE r1
        r4 == [r3 EXCEPT !.LastUpdate = now]
    IN  [r4 EXCEPT !.Revision = @ + 1]

ScaleRecord(rec, replicas, now) ==
    LET r1 == [rec EXCEPT !.Summary.DesiredReplicas = replicas]
        r2 == IF r1.Summary.ReadyReplicas > replicas
              THEN [r1 EXCEPT !.Summary.ReadyReplicas = replicas] ELSE r1
        r3 == IF r2.Summary.UpdatedReplicas > replicas
              THEN [r2 EXCEPT !.Summary.UpdatedReplicas = replicas] ELSE r2
        r4 == [r3 EXCEPT !.LastUpdate = now]
    IN  [r4 EXCEPT !.Revision = @ + 1]

\* Scale with the range check made under the lock, after the lookup
ScaleLookupFirst(items, name, replicas, now, first) ==
    IF first = NoKey
    THEN [items |-> items, val |-> ZeroDetail, err |-> ErrNotFound]
    ELSE IF replicas < 0 \/ replicas > MaxReplicas
         THEN [items |-> items, val |-> ZeroDetail, err |-> ErrInvalidReplicas]
         ELSE LET rec == ScaleRecord(items[first], replicas, now)
              IN  [items |-> [items EXCEPT ![first] = rec],
                   val   |-> toDetail(rec, now),
                   err   |-> ErrNil]

\* Scale falling out of its loop with a nil error
ScaleMissingNil(items, name, replicas, now, first) ==
    IF replicas < 0 \/ replicas > MaxReplicas
    THEN [items |-> items, val |-> ZeroDetail, err |-> ErrInvalidReplicas]
    ELSE IF first = NoKey
         THEN [items |-> items, val |-> ZeroDetail, err |-> ErrNil]
         ELSE LET rec == ScaleRecord(items[first], replicas, now)
              IN  [items |-> [items EXCEPT ![first] = rec],
                   val   |-> toDetail(rec, now),
                   err   |-> ErrNil]

\* Store.Scale, the loop stopping at `first`: the store after the call, the
\* detail and the error.
Scale(items, name, replicas, now, first) ==
    IF replicas < 0 \/ replicas > MaxReplicas
    THEN [items |-> items, val |-> ZeroDetail, err |-> ErrInvalidReplicas]
    ELSE IF first = NoKey
         THEN [items |-> items, val |-> ZeroDetail, err |-> ErrNotFound]
         ELSE LET rec == ScaleRecord(items[first], replicas, now)
              IN  [items |-> [items EXCEPT ![first] = rec],
                   val   |-> toDetail(rec, now),
                   err   |-> ErrNil]

(***************************************************************************)
(* The namespace store (package namespace).  items maps a name to a        *)
(* record [Name, Status, CreatedAt, Labels]; a nil labels map is the empty *)
(* function.                                                               *)
(***************************************************************************)
namespace_ErrExists      == "namespace already exists"
namespace_ErrInvalidName == "invalid namespace name"

MaxNameLen == 63

\* strings.TrimSpace, over the white space of the inputs: space, tab, newline
IsSpace(c) == c \in {" ", "\t", "\n"}

TrimSpace(s) ==
    IF \A i \in 1..Len(s) : IsSpace(CharAt(s, i)) THEN ""
    ELSE SubSeq(s,
                CHOOSE i \in 1..Len(s) :
                    ~IsSpace(CharAt(s, i)) /\ \A j \in 1..(i - 1) : IsSpace(CharAt(s, j)),
                CHOOSE i \in 1..Len(s) :
                    ~IsSpace(CharAt(s, i)) /\ \A j \in (i + 1)..Len(s) : IsSpace(CharAt(s, j)))

\* the class [a-z0-9] of namespaceNameRegex
LowerAlnum ==
    {"0", "1", "2", "3", "4", "5", "6", "7", "8", "9", "a", "b", "c", "d", "e", "f", "g", "h",
     "i", "j", "k", "l", "m", "n", "o", "p", "q", "r", "s", "t", "u", "v", "w", "x", "y", "z"}

IsLowerAlnum(c) == c \in LowerAlnum

\* namespaceNameRegex.MatchString: ^[a-z0-9]([-a-z0-9]*[a-z0-9])?$
namespaceNameRegex(s) ==
    /\ Len(s) >= 1
    /\ IsLowerAlnum(CharAt(s, 1))
    /\ Len(s) > 1 =>
          /\ IsLowerAlnum(CharAt(s, Len(s)))
          /\ \A i \in 2..(Len(s) - 1) : IsLowerAlnum(CharAt(s, i)) \/ CharAt(s, i) = "-"

namespace_defaultSeed(now) ==
    LET base == Add(now, 0 - 48 * Hour) IN
    << [Name |-> "default", Status |-> "Active", CreatedAt |-> base,
        Labels |-> ("kubernetes.io/metadata.name" :> "default")],
       [Name |-> "kube-system", Status |-> "Active",
        CreatedAt |-> Add(base, 0 - 24 * Hour),
        Labels |-> ("kubernetes.io/metadata.name" :> "kube-system"
                    @@ "pod-security.kubernetes.io/enforce" :> "privileged")],
       [Name |-> "monitoring", Status |-> "Active",
        CreatedAt |-> Add(base, 6 * Hour),
        Labels |-> ("team" :> "sre"
                    @@ "kubernetes.io/metadata.name" :> "monitoring")] >>

\* keyed by rec.Name: of two seeds with one name the later one stays
namespace_NewStore(now) ==
    LET seed == namespace_defaultSeed(now)
    IN  [n \in {seed[i].Name : i \in 1..Len(seed)} |->
            seed[CHOOSE i \in 1..Len(seed) :
                    seed[i].Name = n /\ \A j \in 1..Len(seed) : seed[j].Name = n => j <= i]]

namespace_toNamespace(rec, now) ==
    [Name      |-> rec.Name,
     Status    |-> rec.Status,
     Age       |-> formatAge(Sub(now, rec.CreatedAt)),
     CreatedAt |-> FormatRFC3339(rec.CreatedAt),
     Labels    |-> rec.Labels]

namespace_Zero ==
    [Name |-> "", Status |-> "", Age |-> "", CreatedAt |-> "", Labels |-> <<>>]

\* Store.List: the map is visited in `order`, then the views are sorted.
namespace_List(items, now, order) ==
    LET out == [i \in 1..Len(order) |-> namespace_toNamespace(items[order[i]], now)]
    IN  SortSlice(out, [p \in Elems(out) \X Elems(out) |-> StrLess(p[1].Name, p[2].Name)])

\* mergeLabels keeping a default label the caller also sent
mergeLabelsDefaultsWin(name, custom) ==
    ("kubernetes.io/metadata.name" :> name
     @@ "app.kubernetes.io/managed-by" :> "mock-dashboard") @@ custom

\* custom's entries over the two default labels
mergeLabels(name, custom) ==
    custom @@ ("kubernetes.io/metadata.name" :> name
               @@ "app.kubernetes.io/managed-by" :> "mock-dashboard")

\* Store.Create without the check of the length
namespace_CreateAnyLength(items, name, now, labels) ==
    LET clean == TrimSpace(name) IN
    IF clean = "" \/ ~namespaceNameRegex(clean)
    THEN [items |-> items, val |-> namespace_Zero, err |-> namespace_ErrInvalidName]
    ELSE IF clean \in DOMAIN items
         THEN [items |-> items, val |-> namespace_Zero, err |-> namespace_ErrExists]
         ELSE LET rec == [Name |-> clean, Status |-> "Active", CreatedAt |-> UTC(now),
                          Labels |-> mergeLabels(clean, labels)]
              IN  [items |-> (clean :> rec) @@ items,
                   val   |-> namespace_toNamespace(rec, now),
                   err   |-> ErrNil]

\* Store.Create reporting a present name only after it has stored the record
namespace_CreateOverwrite(items, name, now, labels) ==
    LET clean == TrimSpace(name) IN
    IF clean = "" \/ Len(clean) > MaxNameLen \/ ~namespaceNameRegex(clean)
    THEN [items |-> items, val |-> namespace_Zero, err |-> namespace_ErrInvalidName]
    ELSE LET rec == [Name |-> clean, Status |-> "Active", CreatedAt |-> UTC(now),
                     Labels |-> mergeLabels(clean, labels)]
             stored == [k \in DOMAIN items \cup {clean} |->
                           IF k = clean THEN rec ELSE items[k]]
         IN  IF clean \in DOMAIN items
             THEN [items |-> stored, val |-> namespace_Zero, err |-> namespace_ErrExists]
             ELSE [items |-> stored, val |-> namespace_toNamespace(rec, now),
                   err |-> ErrNil]

\* Store.Create storing the record under the name as it was given
namespace_CreateRawKey(items, name, now, labels) ==
    LET clean == TrimSpace(name) IN
    IF clean = "" \/ Len(clean) > MaxNameLen \/ ~namespaceNameRegex(clean)
    THEN [items |-> items, val |-> namespace_Zero, err |-> namespace_ErrInvalidName]
    ELSE IF clean \in DOMAIN items
         THEN [items |-> items, val |-> namespace_Zero, err |-> namespace_ErrExists]
         ELSE LET rec == [Name |-> clean, Status |-> "Active", CreatedAt |-> UTC(now),
                          Labels |-> mergeLabels(clean, labels)]
              IN  [items |-> (name :> rec) @@ items,
                   val   |-> namespace_toNamespace(rec, now),
                   err   |-> ErrNil]

\* Store.Create: the store after the call, the view and the error.
namespace_Create(items, name, now, labels) ==
    LET clean == TrimSpace(name) IN
    IF clean = "" \/ Len(clean) > MaxNameLen \/ ~namespaceNameRegex(clean)
    THEN [items |-> items, val |-> namespace_Zero, err |-> namespace_ErrInvalidName]
    ELSE IF clean \in DOMAIN items
         THEN [items |-> items, val |-> namespace_Zero, err |-> namespace_ErrExists]
         ELSE LET rec == [Name |-> clean, Status |-> "Active", CreatedAt |-> UTC(now),
                          Labels |-> mergeLabels(clean, labels)]
              IN  [items |-> (clean :> rec) @@ items,
                   val   |-> namespace_toNamespace(rec, now),
                   err   |-> ErrNil]

\* Store.Delete without the test for the name: delete and report true
namespace_DeleteUnchecked(items, name) ==
    LET clean == TrimSpace(name) IN
    [items |-> [k \in DOMAIN items \ {clean} |-> items[k]], val |-> TRUE]

\* Store.Delete reporting a present name and leaving its record
namespace_DeleteReportOnly(items, name) ==
    [items |-> items, val |-> TrimSpace(name) \in DOMAIN items]

\* Store.Delete: the store after the call and whether the name was present.
namespace_Delete(items, name) ==
    LET clean == TrimSpace(name) IN
    IF clean \notin DOMAIN items
    THEN [items |-> items, val |-> FALSE]
    ELSE [items |-> [k \in DOMAIN items \ {clean} |-> items[k]], val |-> TRUE]

(***************************************************************************)
(* The pod store (package pod).  items maps key(namespace, name) to a      *)
(* record [Summary, CreatedAt, Containers, Events, Logs].                  *)
(***************************************************************************)
pod_ErrNotFound == "pod not found"

pod_Event(type, reason, message) ==
    [Type |-> type, Reason |-> reason, Message |-> message, Timestamp |-> ""]

pod_Container(name, image, ready, restarts) ==
    [Name |-> name, Image |-> image, Ready |-> ready, RestartCount |-> restarts]

pod_defaultSeed(now) ==
    LET base == Add(now, 0 - 6 * Hour) IN
    << [Summary |-> [Name |-> "frontend-7d8fdc9f7c-abc12", Namespace |-> "default",
                     Status |-> "Running", ReadyContainers |-> "2/2", Restarts |-> 1,
                     Age |-> "", Node |-> "node-2",
                     Images |-> <<"nginx:1.25", "busybox:1.36">>],
        CreatedAt |-> base,
        Containers |-> << pod_Container("frontend", "nginx:1.25", TRUE, 1),
                          pod_Container("sidecar", "busybox:1.36", TRUE, 0) >>,
        Logs |-> << "[INFO] 10:15:01 request handled /",
                    "[INFO] 10:15:02 request handled /healthz",
                    "[WARN] 10:16:12 upstream latency 240ms" >>,
        Events |-> << pod_Event("Normal", "Pulled", "Successfully pulled image nginx:1.25"),
                      pod_Event("Normal", "Started", "Started container frontend") >>],
       [Summary |-> [Name |-> "backend-76c4d5f6d6-xyz89", Namespace |-> "prod",
                     Status |-> "Running", ReadyContainers |-> "1/1", Restarts |-> 0,
                     Age |-> "", Node |-> "node-3",
                     Images |-> <<"golang:1.21">>],
        CreatedAt |-> Add(base, 0 - 2 * Hour),
        Containers |-> << pod_Container("backend", "golang:1.21", TRUE, 0) >>,
        Logs |-> << "[INFO] 09:10:04 processed job 2384",
                    "[INFO] 09:12:51 processed job 2385",
                    "[INFO] 09:15:13 cache warmup complete" >>,
        Events |-> << pod_Event("Normal", "ScalingReplicaSet",
                                "Scaled up replica set backend-76c4d5f6d6 to 3") >>],
       [Summary |-> [Name |-> "jobs-runner-bb7d67f4f6-123zt", Namespace |-> "batch",
                     Status |-> "Pending", ReadyContainers |-> "0/1", Restarts |-> 0,
                     Age |-> "", Node |-> "",
                     Images |-> <<"python:3.12">>],
        CreatedAt |-> Add(base, 0 - 30 * Minute),
        Containers |-> << pod_Container("worker", "python:3.12", FALSE, 0) >>,
        Logs |-> << "[INFO] job queued" >>,
        Events |-> << pod_Event("Warning", "FailedScheduling",
                                "0/3 nodes available: insufficient memory.") >>] >>

pod_NewStore(now) ==
    LET seed == pod_defaultSeed(now)
        keyOf(i) == key(seed[i].Summary.Namespace, seed[i].Summary.Name)
    IN  [k \in {keyOf(i) : i \in 1..Len(seed)} |->
            seed[CHOOSE i \in 1..Len(seed) :
                    keyOf(i) = k /\ \A j \in 1..Len(seed) : keyOf(j) = k => j <= i]]

pod_decorateSummary(sum, createdAt, now) ==
    [sum EXCEPT !.Age = formatAge(Sub(now, createdAt))]

\* an event without a timestamp gets the reference instant
pod_decorateEvents(events, now) ==
    [i \in 1..Len(events) |->
        IF events[i].Timestamp = ""
        THEN [events[i] EXCEPT !.Timestamp = FormatRFC3339(now)]
        ELSE events[i]]

pod_ZeroDetail ==
    [Summary |-> [Name |-> "", Namespace |-> "", Status |-> "", ReadyContainers |-> "",
                  Restarts |-> 0, Age |-> "", Node |-> "", Images |-> <<>>],
     Containers |-> <<>>, Logs |-> <<>>, Events |-> <<>>]

\* Store.List: the map is visited in `order`, then the views are sorted.
pod_List(items, now, order) ==
    LET out == [i \in 1..Len(order) |->
                  pod_decorateSummary(items[order[i]].Summary, items[order[i]].CreatedAt, now)]
    IN  SortSlice(out, [p \in Elems(out) \X Elems(out) |-> SummaryLess(p[1], p[2])])

\* Store.Get, the loop stopping at `first`
pod_Get(items, name, now, first) ==
    IF first = NoKey THEN [val |-> pod_ZeroDetail, err |-> pod_ErrNotFound]
    ELSE LET rec == items[first] IN
         [val |-> [Summary    |-> pod_decorateSummary(rec.Summary, rec.CreatedAt, now),
                   Containers |-> rec.Containers,
                   Logs       |-> rec.Logs,
                   Events     |-> pod_decorateEvents(rec.Events, now)],
          err |-> ErrNil]

(***************************************************************************)
(* The service store (package service).  items maps a service's name,      *)
(* without its namespace, to a record [Summary, CreatedAt, Selector,       *)
(* Endpoints, RelatedPods, Description].  A nil NodePort is NoPort.  The   *)
(* descriptions stand for the source's non-ASCII texts.                    *)
(***************************************************************************)
service_ErrNotFound == "service not found"

NoPort == 0 - 1

service_Port(name, port, target, nodePort) ==
    [Name |-> name, Protocol |-> "TCP", Port |-> port, TargetPort |-> target,
     NodePort |-> nodePort]

RelatedPod(name, namespace, status, node) ==
    [Name |-> name, Namespace |-> namespace, Status |-> status, Node |-> node]

service_defaultSeed(now) ==
    LET base == Add(now, 0 - 48 * Hour) IN
    << [Summary |-> [Name |-> "frontend", Namespace |-> "default", Type |-> "ClusterIP",
                     ClusterIP |-> "10.96.10.21", ExternalIPs |-> <<>>,
                     Ports |-> << service_Port("http", 80, 8080, NoPort),
                                  service_Port("metrics", 9000, 9000, NoPort) >>,
                     Status |-> "Active", Age |-> ""],
        CreatedAt |-> base,
        Selector |-> ("app" :> "frontend" @@ "tier" :> "web"),
        Endpoints |-> <<"10.0.0.11:8080", "10.0.0.12:8080">>,
        RelatedPods |-> << RelatedPod("frontend-7d8fdc9f7c-abc12", "default", "Running", "node-2"),
                           RelatedPod("frontend-7d8fdc9f7c-def34", "default", "Running", "node-3") >>,
        Description |-> "description of frontend"],
       [Summary |-> [Name |-> "edge-gateway", Namespace |-> "prod", Type |-> "LoadBalancer",
                     ClusterIP |-> "10.96.20.5", ExternalIPs |-> <<"203.0.113.24">>,
                     Ports |-> << service_Port("http", 80, 8080, 30080),
                                  service_Port("https", 443, 8443, 30443) >>,
                     Status |-> "Pending", Age |-> ""],
        CreatedAt |-> Add(base, 12 * Hour),
        Selector |-> ("app" :> "edge-gateway" @@ "component" :> "ingress"),
        Endpoints |-> <<"34.87.18.4:80", "34.87.18.4:443">>,
        RelatedPods |-> << RelatedPod("edge-gateway-7d8fdc9f7c-9012a", "prod", "Running", "node-1"),
                           RelatedPod("edge-gateway-7d8fdc9f7c-9012b", "prod", "Pending", "") >>,
        Description |-> "description of edge-gateway"],
       [Summary |-> [Name |-> "batch-metrics", Namespace |-> "batch", Type |-> "NodePort",
                     ClusterIP |-> "10.96.35.42", ExternalIPs |-> <<>>,
                     Ports |-> << service_Port("http", 8080, 8080, 32045) >>,
                     Status |-> "Active", Age |-> ""],
        CreatedAt |-> Add(base, 30 * Hour),
        Selector |-> ("job" :> "metrics"),
        Endpoints |-> <<"10.0.12.5:8080">>,
        RelatedPods |-> << RelatedPod("batch-metrics-7c5d6f6b4d-xk9p2", "batch", "Running", "node-2") >>,
        Description |-> "description of batch-metrics"] >>

\* keyed by rec.Name: of two seeds with one name the later one stays
service_NewStore(now) ==
    LET seed == service_defaultSeed(now)
    IN  [n \in {seed[i].Summary.Name : i \in 1..Len(seed)} |->
            seed[CHOOSE i \in 1..Len(seed) :
                    /\ seed[i].Summary.Name = n
                    /\ \A j \in 1..Len(seed) : seed[j].Summary.Name = n => j <= i]]

\* copies of the slices hold the same values
service_decorateSummary(sum, createdAt, now) ==
    [sum EXCEPT !.Age = formatAge(Sub(now, createdAt))]

service_ZeroDetail ==
    [Summary |-> [Name |-> "", Namespace |-> "", Type |-> "", ClusterIP |-> "",
                  ExternalIPs |-> <<>>, Ports |-> <<>>, Status |-> "", Age |-> ""],
     Selector |-> <<>>, Endpoints |-> <<>>, RelatedPods |-> <<>>,
     CreatedAt |-> "", Description |-> ""]

\* Store.List: the map is visited in `order`, then the views are sorted.
service_List(items, now, order) ==
    LET out == [i \in 1..Len(order) |->
                  service_decorateSummary(items[order[i]].Summary, items[order[i]].CreatedAt, now)]
    IN  SortSlice(out, [p \in Elems(out) \X Elems(out) |-> SummaryLess(p[1], p[2])])

\* Store.Get: a lookup of the map by name
service_Get(items, name, now) ==
    IF name \in DOMAIN items
    THEN LET rec == items[name] IN
         [val |-> [Summary     |-> service_decorateSummary(rec.Summary, rec.CreatedAt, now),
                   Selector    |-> copyMap(rec.Selector),
                   Endpoints   |-> rec.Endpoints,
                   RelatedPods |-> rec.RelatedPods,
                   CreatedAt   |-> FormatRFC3339(rec.CreatedAt),
                   Description |-> rec.Description],
          err |-> ErrNil]
    ELSE [val |-> service_ZeroDetail, err |-> service_ErrNotFound]

(***************************************************************************)
(* The node store (package node).  items maps a node's name to its record. *)
(* The float64 fields are kept in tenths: CPUUsed 6.5 is 65, a percentage  *)
(* of 40.6 is 406.                                                         *)
(***************************************************************************)
node_ErrNotFound == "node not found"

Tenths == 10

\* round(value, 1) of a quotient num/den >= 0, in tenths:
\* int64(value*10 + 0.5)
round(num, den) == (2 * num * Tenths + den) \div (2 * den)

\* percentage(used, capacity), arguments and result in tenths
percentage(used, capacity) ==
    IF capacity <= 0 THEN 0
    ELSE IF used < 0 THEN 0
    ELSE IF used > capacity THEN 100 * Tenths
    ELSE round(used * 100, capacity)

node_Condition(type, status, message, heartbeat, transition) ==
    [Type |-> type, Status |-> status, Message |-> message,
     LastHeartbeat |-> heartbeat, LastTransition |-> transition]

node_Record(name, status, roles, createdAt, usage, pods, labels, taints, conditions) ==
    [Name |-> name, Status |-> status, Roles |-> roles, CreatedAt |-> createdAt,
     KubeletVersion |-> "v1.28.3",
     CPUUsed |-> usage[1], CPUCapacity |-> usage[2],
     MemoryUsed |-> usage[3], MemoryCapacity |-> usage[4],
     PodRunning |-> pods[1], PodPending |-> pods[2], PodCapacity |-> pods[3],
     Architecture |-> "amd64", OSImage |-> "Ubuntu 22.04 LTS",
     KernelVersion |-> "5.15.0-78-generic", ContainerRuntime |-> "containerd://1.7.8",
     Labels |-> labels, Taints |-> taints, Conditions |-> conditions]

node_defaultSeed(now) ==
    LET base == Add(now, 0 - 72 * Hour) IN
    << node_Record("node-1", "Ready", <<"control-plane", "master">>, base,
                   <<65, 160, 480, 1280>>, <<45, 2, 110>>,
                   ("kubernetes.io/hostname" :> "node-1"
                    @@ "topology.kubernetes.io/zone" :> "cn-shanghai-a"),
                   <<"node-role.kubernetes.io/control-plane:NoSchedule">>,
                   << node_Condition("Ready", "True", "Node is ready", now, base) >>),
       node_Record("node-2", "Ready", <<"worker">>, Add(base, 6 * Hour),
                   <<90, 320, 720, 2560>>, <<68, 5, 150>>,
                   ("kubernetes.io/hostname" :> "node-2"
                    @@ "topology.kubernetes.io/zone" :> "cn-shanghai-b"
                    @@ "nodepool" :> "blue"),
                   <<>>,
                   << node_Condition("Ready", "True", "Node is ready", now,
                                     Add(base, 2 * Hour)),
                      node_Condition("DiskPressure", "False", "No disk pressure",
                                     Add(now, 0 - 10 * Minute), Add(base, 12 * Hour)) >>),
       node_Record("node-3", "NotReady", <<"worker">>, Add(base, 12 * Hour),
                   <<20, 160, 240, 1280>>, <<12, 8, 110>>,
                   ("kubernetes.io/hostname" :> "node-3"
                    @@ "topology.kubernetes.io/zone" :> "cn-shanghai-c"
                    @@ "nodepool" :> "green"),
                   <<"maintenance=true:NoSchedule">>,
                   << node_Condition("Ready", "False", "Kubelet stopped posting node status",
                                     Add(now, 0 - 30 * Minute), Add(now, 0 - 30 * Minute)),
                      node_Condition("NetworkUnavailable", "True", "Cilium agent not ready",
                                     Add(now, 0 - 45 * Minute), Add(now, 0 - 45 * Minute)) >>) >>

\* keyed by rec.Name: of two seeds with one name the later one stays
node_NewStore(now) ==
    LET seed == node_defaultSeed(now)
    IN  [n \in {seed[i].Name : i \in 1..Len(seed)} |->
            seed[CHOOSE i \in 1..Len(seed) :
                    seed[i].Name = n /\ \A j \in 1..Len(seed) : seed[j].Name = n => j <= i]]

UsageMetric(used, capacity, unit) ==
    [Used |-> used, Capacity |-> capacity, Unit |-> unit,
     Percentage |-> percentage(used, capacity)]

toSummary(rec, now) ==
    [Name           |-> rec.Name,
     Status         |-> rec.Status,
     Roles          |-> rec.Roles,
     Age            |-> formatAge(Sub(now, rec.CreatedAt)),
     KubeletVersion |-> rec.KubeletVersion,
     CPU            |-> UsageMetric(rec.CPUUsed, rec.CPUCapacity, "cores"),
     Memory         |-> UsageMetric(rec.MemoryUsed, rec.MemoryCapacity, "GiB"),
     Pods           |-> [Running |-> rec.PodRunning, Pending |-> rec.PodPending,
                         Capacity |-> rec.PodCapacity]]

node_toDetail(rec, now) ==
    [NodeSummary      |-> toSummary(rec, now),
     Architecture     |-> rec.Architecture,
     OSImage          |-> rec.OSImage,
     KernelVersion    |-> rec.KernelVersion,
     ContainerRuntime |-> rec.ContainerRuntime,
     Labels           |-> [k \in DOMAIN rec.Labels |-> rec.Labels[k]],
     Taints           |-> rec.Taints,
     Conditions       |-> [i \in 1..Len(rec.Conditions) |->
                             [Type           |-> rec.Conditions[i].Type,
                              Status         |-> rec.Conditions[i].Status,
                              Message        |-> rec.Conditions[i].Message,
                              LastHeartbeat  |-> FormatRFC3339(rec.Conditions[i].LastHeartbeat),
                              LastTransition |-> FormatRFC3339(rec.Conditions[i].LastTransition)]]]

node_ZeroDetail ==
    [NodeSummary |-> [Name |-> "", Status |-> "", Roles |-> <<>>, Age |-> "",
                      KubeletVersion |-> "",
                      CPU |-> [Used |-> 0, Capacity |-> 0, Unit |-> "", Percentage |-> 0],
                      Memory |-> [Used |-> 0, Capacity |-> 0, Unit |-> "", Percentage |-> 0],
                      Pods |-> [Running |-> 0, Pending |-> 0, Capacity |-> 0]],
     Architecture |-> "", OSImage |-> "", KernelVersion |-> "", ContainerRuntime |-> "",
     Labels |-> <<>>, Taints |-> <<>>, Conditions |-> <<>>]

\* Store.List: the map is visited in `order`, then the views are sorted.
node_List(items, now, order) ==
    LET out == [i \in 1..Len(order) |-> toSummary(items[order[i]], now)]
    IN  SortSlice(out, [p \in Elems(out) \X Elems(out) |-> Compare(p[1].Name, p[2].Name) < 0])

\* Store.Get: a lookup of the map by name
node_Get(items, name, now) ==
    IF name \notin DOMAIN items
    THEN [val |-> node_ZeroDetail, err |-> node_ErrNotFound]
    ELSE [val |-> node_toDetail(items[name], now), err |-> ErrNil]

(***************************************************************************)
(* The diagnostic store (package logs).  logs is a slice of records        *)
(* [Namespace, Pod, Level, Message, CreatedAt], appended entries first.    *)
(***************************************************************************)
\* unicode.ToLower on the letters A-Z
LowerOf ==
    "A" :> "a" @@ "B" :> "b" @@ "C" :> "c" @@ "D" :> "d" @@ "E" :> "e" @@ "F" :> "f" @@
    "G" :> "g" @@ "H" :> "h" @@ "I" :> "i" @@ "J" :> "j" @@ "K" :> "k" @@ "L" :> "l" @@
    "M" :> "m" @@ "N" :> "n" @@ "O" :> "o" @@ "P" :> "p" @@ "Q" :> "q" @@ "R" :> "r" @@
    "S" :> "s" @@ "T" :> "t" @@ "U" :> "u" @@ "V" :> "v" @@ "W" :> "w" @@ "X" :> "x" @@
    "Y" :> "y" @@ "Z" :> "z"

\* unicode.ToUpper on the letters a-z
UpperOf ==
    "a" :> "A" @@ "b" :> "B" @@ "c" :> "C" @@ "d" :> "D" @@ "e" :> "E" @@ "f" :> "F" @@
    "g" :> "G" @@ "h" :> "H" @@ "i" :> "I" @@ "j" :> "J" @@ "k" :> "K" @@ "l" :> "L" @@
    "m" :> "M" @@ "n" :> "N" @@ "o" :> "O" @@ "p" :> "P" @@ "q" :> "Q" @@ "r" :> "R" @@
    "s" :> "S" @@ "t" :> "T" @@ "u" :> "U" @@ "v" :> "V" @@ "w" :> "W" @@ "x" :> "X" @@
    "y" :> "Y" @@ "z" :> "Z"

\* strings.ToLower
RECURSIVE ToLower(_)
ToLower(s) ==
    IF s = "" THEN ""
    ELSE (IF CharAt(s, 1) \in DOMAIN LowerOf THEN LowerOf[CharAt(s, 1)] ELSE CharAt(s, 1))
         \o ToLower(SubSeq(s, 2, Len(s)))

\* strings.ToUpper
RECURSIVE ToUpper(_)
ToUpper(s) ==
    IF s = "" THEN ""
    ELSE (IF CharAt(s, 1) \in DOMAIN UpperOf THEN UpperOf[CharAt(s, 1)] ELSE CharAt(s, 1))
         \o ToUpper(SubSeq(s, 2, Len(s)))

LevelInfo  == "INFO"
LevelWarn  == "WARN"
LevelError == "ERROR"

DefaultLimit == 50
MaxLimit == 200

logRecord(namespace, pod, level, message, createdAt) ==
    [Namespace |-> namespace, Pod |-> pod, Level |-> level, Message |-> message,
     CreatedAt |-> createdAt]

defaultLogs(now) ==
    LET base == Add(now, 0 - 5 * Minute) IN
    << logRecord("default", "frontend-7d8fdc9f7c-abc12", LevelInfo, "GET / 200 18ms", base),
       logRecord("default", "frontend-7d8fdc9f7c-abc12", LevelInfo, "GET /healthz 200 5ms",
                 Add(base, 20 * Second)),
       logRecord("default", "frontend-7d8fdc9f7c-def34", LevelWarn, "upstream latency 430ms",
                 Add(base, 38 * Second)),
       logRecord("prod", "edge-gateway-7d8fdc9f7c-9012a", LevelError,
                 "listener restart due to config reload", Add(base, 64 * Second)),
       logRecord("prod", "edge-gateway-7d8fdc9f7c-9012a", LevelInfo, "probe /ready succeeded",
                 Add(base, 80 * Second)),
       logRecord("prod", "backend-76c4d5f6d6-xyz89", LevelInfo, "processed job 3498",
                 Add(base, 95 * Second)),
       logRecord("prod", "backend-76c4d5f6d6-xyz89", LevelWarn,
                 "cache miss ratio 42% exceeds threshold", Add(base, 2 * Minute)),
       logRecord("batch", "batch-runner-5b87d7fbc6-kx912", LevelInfo,
                 "scheduled job nightly-sync", Add(base, 150 * Second)),
       logRecord("batch", "batch-runner-5b87d7fbc6-kx912", LevelError,
                 "job nightly-sync failed: no nodes available", Add(base, 165 * Second)),
       logRecord("batch", "batch-runner-5b87d7fbc6-kx912", LevelInfo, "retry scheduled in 30s",
                 Add(base, 3 * Minute)) >>

\* NewStore, the logs of it
logs_NewStore(now) == defaultLogs(now)

\* limit := filter.Limit, 50 when it is not in 1..200
limitOf(limit) == IF limit <= 0 \/ limit > MaxLimit THEN DefaultLimit ELSE limit

\* The tests of ListLogs without the test of the level
passesNoLevel(rec, namespace, pod, level) ==
    /\ ~(namespace # "" /\ ToLower(rec.Namespace) # namespace)
    /\ ~(pod # "" /\ ToLower(rec.Pod) # pod)

\* The three tests of the loop of ListLogs: the record is not skipped.
passes(rec, namespace, pod, level) ==
    /\ ~(namespace # "" /\ ToLower(rec.Namespace) # namespace)
    /\ ~(pod # "" /\ ToLower(rec.Pod) # pod)
    /\ ~(level # "" /\ rec.Level # level)

toLogEntry(rec) ==
    [Timestamp |-> FormatRFC3339(rec.CreatedAt), Namespace |-> rec.Namespace,
     Pod |-> rec.Pod, Level |-> rec.Level, Message |-> rec.Message]

\* Store.ListLogs: the loop over s.logs, left when the result is full.
ListLogs(logs, now, filter) ==
    LET limit     == limitOf(filter.Limit)
        namespace == TrimSpace(ToLower(filter.Namespace))
        pod       == TrimSpace(ToLower(filter.Pod))
        level     == TrimSpace(ToUpper(filter.Level))
        RECURSIVE loop(_, _)
        loop(i, result) ==
            IF i > Len(logs) THEN result
            ELSE IF ~passes(logs[i], namespace, pod, level) THEN loop(i + 1, result)
            ELSE IF Len(result) + 1 >= limit THEN Append(result, toLogEntry(logs[i]))
            ELSE loop(i + 1, Append(result, toLogEntry(logs[i])))
    IN  loop(1, <<>>)

\* time.Parse(time.RFC3339, ts) succeeds, for the texts of July 2024
\* without a fraction of a second.
ValidRFC3339(ts) ==
    /\ Len(ts) \in {20, 25}
    /\ SubSeq(ts, 1, 8) = "2024-07-"
    /\ IsDigits(SubSeq(ts, 9, 10)) /\ Number(SubSeq(ts, 9, 10)) \in 1..31
    /\ CharAt(ts, 11) = "T"
    /\ IsDigits(SubSeq(ts, 12, 13)) /\ Number(SubSeq(ts, 12, 13)) < 24
    /\ CharAt(ts, 14) = ":"
    /\ IsDigits(SubSeq(ts, 15, 16)) /\ Number(SubSeq(ts, 15, 16)) < 60
    /\ CharAt(ts, 17) = ":"
    /\ IsDigits(SubSeq(ts, 18, 19)) /\ Number(SubSeq(ts, 18, 19)) < 60
    /\ IF Len(ts) = 20 THEN CharAt(ts, 20) = "Z"
       ELSE /\ CharAt(ts, 20) \in {"+", "-"}
            /\ IsDigits(SubSeq(ts, 21, 22)) /\ Number(SubSeq(ts, 21, 22)) < 24
            /\ CharAt(ts, 23) = ":"
            /\ IsDigits(SubSeq(ts, 24, 25)) /\ Number(SubSeq(ts, 24, 25)) < 60

\* The instant a valid text states, in the zone the text names.
ParseRFC3339(ts) ==
    LET local == (Number(SubSeq(ts, 9, 10)) - 1) * 24 * Hour
                 + Number(SubSeq(ts, 12, 13)) * Hour
                 + Number(SubSeq(ts, 15, 16)) * Minute
                 + Number(SubSeq(ts, 18, 19)) * Second
        off   == IF Len(ts) = 20 THEN 0
                 ELSE (IF CharAt(ts, 20) = "-" THEN 0 - 1 ELSE 1)
                      * (Number(SubSeq(ts, 21, 22)) * Hour
                         + Number(SubSeq(ts, 24, 25)) * Minute)
    IN  [sec |-> local - off, off |-> off]

\* parseTimestamp: the instant an RFC 3339 text states, else the fallback
parseTimestamp(ts, fallback) ==
    IF ts = "" THEN fallback
    ELSE IF ValidRFC3339(ts) THEN ParseRFC3339(ts)
    ELSE fallback

\* Store.UniqueLevels
UniqueLevels == <<LevelInfo, LevelWarn, LevelError>>

\* AppendLog putting the record behind the others
AppendLogLast(logs, entry, wall) ==
    Append(logs, logRecord(entry.Namespace, entry.Pod, ToUpper(entry.Level), entry.Message,
                           parseTimestamp(entry.Timestamp, wall)))

\* Store.AppendLog; wall is time.Now()
AppendLog(logs, entry, wall) ==
    <<logRecord(entry.Namespace, entry.Pod, ToUpper(entry.Level), entry.Message,
                parseTimestamp(entry.Timestamp, wall))>> \o logs

eventRecord(namespace, kind, name, type, reason, message, count, occurred) ==
    [Namespace |-> namespace, Kind |-> kind, Name |-> name, Type |-> type,
     Reason |-> reason, Message |-> message, Count |-> count, Occurred |-> occurred]

defaultEvents(now) ==
    << eventRecord("default", "Deployment", "frontend", "Normal", "ScalingReplicaSet",
                   "Scaled up replica set frontend-7d8fdc9f7c to 3", 1,
                   Add(now, 0 - 12 * Minute)),
       eventRecord("prod", "Pod", "edge-gateway-7d8fdc9f7c-9012a", "Warning",
                   "FailedScheduling", "0/3 nodes available: Insufficient MEMORY", 3,
                   Add(now, 0 - 9 * Minute)),
       eventRecord("prod", "Pod", "edge-gateway-7d8fdc9f7c-9012b", "Normal", "Pulled",
                   "Successfully pulled image registry.local/edge:2.1.0", 1,
                   Add(now, 0 - 8 * Minute)),
       eventRecord("batch", "Job", "nightly-sync", "Warning", "BackoffLimitExceeded",
                   "Job has reached the specified backoff limit", 1,
                   Add(now, 0 - 5 * Minute)),
       eventRecord("batch", "Pod", "batch-runner-5b87d7fbc6-kx912", "Normal", "Scheduled",
                   "Successfully assigned batch/batch-runner-5b87d7fbc6-kx912 to node-2", 1,
                   Add(now, 0 - 3 * Minute)) >>

toEvent(rec) ==
    [Timestamp |-> FormatRFC3339(rec.Occurred), Namespace |-> rec.Namespace,
     Kind |-> rec.Kind, Name |-> rec.Name, Type |-> rec.Type, Reason |-> rec.Reason,
     Message |-> rec.Message, Count |-> rec.Count]

\* Store.ListEvents: the views, sorted by the text of their timestamps
ListEvents(records, now) ==
    LET events == [i \in 1..Len(records) |-> toEvent(records[i])]
    IN  SortSlice(events, [p \in Elems(events) \X Elems(events) |->
                              StrLess(p[2].Timestamp, p[1].Timestamp)])

\* Store.AppendEvent; wall is time.Now()
AppendEvent(records, ev, wall) ==
    <<eventRecord(ev.Namespace, ev.Kind, ev.Name, ev.Type, ev.Reason, ev.Message, ev.Count,
                  parseTimestamp(ev.Timestamp, wall))>> \o records

\* The keys of a set, in some order.
RECURSIVE KeysOf(_)
KeysOf(S) ==
    IF S = {} THEN <<>>
    ELSE LET x == CHOOSE y \in S : TRUE IN <<x>> \o KeysOf(S \ {x})

\* sort.Strings on the keys of a set: the keys differ, so the order the map
\* is ranged in does not reach the result.
SortedKeys(S) ==
    SortSlice(KeysOf(S), [p \in S \X S |-> StrLess(p[1], p[2])])

\* UniqueNamespaces looking at the logs alone
UniqueNamespacesOfLogs(logs, events) ==
    SortedKeys({logs[i].Namespace : i \in 1..Len(logs)})

\* Store.UniqueNamespaces
UniqueNamespaces(logs, events) ==
    SortedKeys({logs[i].Namespace : i \in 1..Len(logs)}
               \cup {events[i].Namespace : i \in 1..Len(events)})

\* Store.UniquePods
UniquePods(logs) == SortedKeys({logs[i].Pod : i \in 1..Len(logs)})

\* Store.DescribeFilters, by one goroutine
DescribeFilters(logs, events) ==
    [namespaces |-> UniqueNamespaces(logs, events),
     pods       |-> UniquePods(logs),
     levels     |-> UniqueLevels]

\* Store.Summarize
Summarize(logs, events, now) ==
    [recent |-> Len(ListLogs(logs, now, [Namespace |-> "", Pod |-> "", Level |-> "",
                                         Limit |-> 10])),
     events |-> Len(ListEvents(events, now))]

(***************************************************************************)
(* The import ledger (package kubeconfig).  items is a slice of summaries  *)
(* [Name, Clusters, Contexts, CurrentContext, ImportedAt], the last added  *)
(* first.  A slice a caller holds is its elements and whether it shares    *)
(* the store's backing array.                                              *)
(***************************************************************************)
Summary(name, clusters, contexts, currentContext, importedAt) ==
    [Name |-> name, Clusters |-> clusters, Contexts |-> contexts,
     CurrentContext |-> currentContext, ImportedAt |-> importedAt]

Cluster(name, server) == [Name |-> name, Server |-> server]

Context(name, cluster, user) == [Name |-> name, Cluster |-> cluster, User |-> user]

kubeconfig_NewStore == <<>>

kubeconfig_ListShared(items) == [items |-> items, shared |-> TRUE]

\* make and copy: the result has a backing array of its own.
kubeconfig_List(items) == [items |-> items, shared |-> FALSE]

kubeconfig_Add(items, summary) == <<summary>> \o items

(***************************************************************************)
(* A DescribeFilters call seen from outside: it reads the namespaces under *)
(* one read lock and the pods under the next.                              *)
(***************************************************************************)
IdleFilters == [pc |-> "idle", namespaces |-> <<>>, pods |-> <<>>, states |-> {}]

\* The store states a running DescribeFilters call has lived through.
Observe(call, logs, events) ==
    IF call.pc \in {"namespaces", "pods", "levels"}
    THEN [call EXCEPT !.states = @ \cup {<<logs, events>>}]
    ELSE call

(***************************************************************************)
(* The calls a client makes, one at a time.                                *)
(***************************************************************************)
\* Names passed to Get: the seeded names, an unknown one, and a store key.
DeployNames == {"frontend", "backend", "batch-jobs", "missing", "default/frontend"}

\* The (name, replicas) pairs passed to Scale: the counts in range for the
\* seeded names and an unknown one, the counts just out of range for a
\* seeded and an unknown name.
ScaleArgs ==
    ({"frontend", "backend", "batch-jobs", "missing"} \X {0, 4, MaxReplicas})
    \cup ({"frontend", "missing"} \X {0 - 1, MaxReplicas + 1})

Call(op, name, n, now, err, val) ==
    [op |-> op, name |-> name, n |-> n, labels |-> <<>>, now |-> now,
     err |-> err, val |-> val]

\* A call that takes a map of labels.
CallLabels(op, name, labels, now, err, val) ==
    [op |-> op, name |-> name, n |-> 0, labels |-> labels, now |-> now,
     err |-> err, val |-> val]

SumOver(f) ==
    LET RECURSIVE Sum(_)
        Sum(S) == IF S = {} THEN 0
                  ELSE LET x == CHOOSE y \in S : TRUE IN f[x] + Sum(S \ {x})
    IN  Sum(DOMAIN f)

Threads == 1..NumThreads

\* A goroutine that has not entered a store call.
IdleThread ==
    [pc |-> "idle", op |-> "", name |-> "", n |-> 0, now |-> StartTime,
     key |-> NoKey, rec |-> <<>>, out |-> <<>>, err |-> ErrNil]

seqVars   == <<ret, nScaled>>
concVars  == <<mu, th, committed>>
\* A goroutine that has not entered a namespace store call.
NsIdleThread ==
    [pc |-> "idle", op |-> "", name |-> "", clean |-> "", labels |-> <<>>,
     now |-> StartTime, out |-> namespace_Zero, ok |-> FALSE, err |-> ErrNil]

\* The stores of the server, and the store of the logs package.
StoreNames == {"deploy", "namespace", "node", "pod", "service", "kubeconfig", "logs"}

Callers == 1..NumCallers

\* A caller of the namespace store holding no labels map.
NoLabels == [name |-> "", labels |-> <<>>, shared |-> FALSE]

\* A goroutine that has not invoked a store operation.
IdleCaller == [pc |-> "idle", op |-> "", prog |-> <<>>, ip |-> 1]

nsConcVars == <<nsMu, nsTh>>
lockVars   == <<locks, calls>>
diagVars   == <<logRecords, logCalls, eventRecords>>
ledgerVars == <<kcItems, kcAdds, kcView>>
obsVars    == <<twin, df, nsHeld>>
storeVars  == <<nsItems, podItems, svcItems, nodeItems, nsMu, nsTh, lockVars, diagVars, ledgerVars, obsVars>>

Init ==
    /\ deployItems = NewStore(StartTime)
    /\ ret = Call("NewStore", "", 0, StartTime, ErrNil, <<>>)
    /\ nScaled = [k \in DOMAIN NewStore(StartTime) |-> 0]
    /\ mu = [w |-> 0, r |-> {}]
    /\ th = [t \in Threads |-> IdleThread]
    /\ committed = [k \in DOMAIN NewStore(StartTime) |-> {NewStore(StartTime)[k]}]
    /\ nsItems = namespace_NewStore(StartTime)
    /\ podItems = pod_NewStore(StartTime)
    /\ svcItems = service_NewStore(StartTime)
    /\ nodeItems = node_NewStore(StartTime)
    /\ nsMu = [w |-> 0, r |-> {}]
    /\ nsTh = [t \in Threads |-> NsIdleThread]
    /\ locks = [s \in StoreNames |-> [w |-> 0, r |-> {}, p |-> {}]]
    /\ calls = [t \in Callers |-> IdleCaller]
    /\ logRecords = logs_NewStore(StartTime)
    /\ logCalls = <<>>
    /\ eventRecords = defaultEvents(StartTime)
    /\ kcItems = kubeconfig_NewStore
    /\ kcAdds = <<>>
    /\ kcView = [items |-> <<>>, shared |-> FALSE]
    /\ twin = [logs |-> logs_NewStore(StartTime), events |-> defaultEvents(StartTime)]
    /\ df = IdleFilters
    /\ nsHeld = NoLabels

DeployList ==
    \E now \in Nows, order \in MapOrders(DOMAIN deployItems) :
        /\ ret' = Call("deploy.List", "", 0, now, ErrNil, List(deployItems, now, order))
        /\ UNCHANGED <<deployItems, nScaled, concVars, storeVars>>

DeployGet ==
    \E name \in DeployNames, now \in Nows :
      \E first \in FirstNamed(deployItems, name) :
        LET r == Get(deployItems, name, now, first) IN
        /\ ret' = Call("deploy.Get", name, 0, now, r.err, r.val)
        /\ UNCHANGED <<deployItems, nScaled, concVars, storeVars>>

\* Store.Scale with its arguments drawn from args and nows
DeployScaleWith(args, nows) ==
    \E arg \in args, now \in nows :
      \E first \in FirstNamed(deployItems, arg[1]) :
        LET name == arg[1]
            n    == arg[2]
            r    == Scale(deployItems, name, n, now, first)
        IN
        /\ r.err = ErrNil => SumOver(nScaled) < MaxScales
        /\ deployItems' = r.items
        /\ ret' = Call("deploy.Scale", name, n, now, r.err, r.val)
        /\ nScaled' = [k \in DOMAIN nScaled |->
                          IF r.err = ErrNil /\ deployItems[k].Summary.Name = name
                          THEN nScaled[k] + 1 ELSE nScaled[k]]
        /\ UNCHANGED <<concVars, storeVars>>

DeployScale == DeployScaleWith(ScaleArgs, Nows)

vars == <<deployItems, ret, nScaled, mu, th, committed, nsItems, podItems, svcItems,
          nodeItems, nsMu, nsTh, locks, calls, logRecords, logCalls, eventRecords,
          kcItems, kcAdds, kcView, twin, df, nsHeld>>

Next == DeployList \/ DeployGet \/ DeployScale

Spec == Init /\ [][Next]_vars

(***************************************************************************)
(* The five stores of one server, called one call at a time.               *)
(***************************************************************************)
\* No instant: the now of a call that takes none.
NoTime == [sec |-> 0, off |-> 0]

\* Names passed to namespace Create and Delete: one that sorts between two
\* seeded names, given with surrounding blanks, one the pattern refuses, a
\* seeded one.
NsNames == {" kube-public ", "Invalid_Name", "default"}

NsLabels == {("team" :> "platform")}

PodNames == {"frontend-7d8fdc9f7c-abc12", "jobs-runner-bb7d67f4f6-123zt", "missing",
             "default/frontend-7d8fdc9f7c-abc12"}

SvcNames == {"frontend", "edge-gateway", "missing", "prod/edge-gateway"}

NodeNames == {"node-1", "node-3", "missing"}

\* The Scale calls made beside the other stores' calls.
StoresScaleArgs == {<<"backend", 4>>, <<"frontend", 0>>, <<"missing", 4>>}

NsList ==
    \E now \in Nows, order \in MapOrders(DOMAIN nsItems) :
        /\ ret' = Call("namespace.List", "", 0, now, ErrNil, namespace_List(nsItems, now, order))
        /\ UNCHANGED <<deployItems, nScaled, concVars, storeVars>>

\* Store.Create with its arguments drawn from names, labels and nows
NsCreateWith(names, labels, nows) ==
    \E name \in names, l \in labels, now \in nows :
        LET r == namespace_Create(nsItems, name, now, l) IN
        /\ nsItems' = r.items
        /\ ret' = CallLabels("namespace.Create", name, l, now, r.err, r.val)
        /\ UNCHANGED <<deployItems, nScaled, concVars, podItems, svcItems, nodeItems, nsConcVars, lockVars,
                     diagVars, ledgerVars, obsVars>>

NsCreate == NsCreateWith(NsNames, NsLabels, Nows \ {StartTime})

\* Delete taking the namespace's pods with it
NsDeleteCascade(names) ==
    \E name \in names :
        LET r == namespace_Delete(nsItems, name) IN
        /\ nsItems' = r.items
        /\ podItems' = [k \in {j \in DOMAIN podItems :
                                  podItems[j].Summary.Namespace # TrimSpace(name)} |->
                           podItems[k]]
        /\ ret' = Call("namespace.Delete", name, 0, NoTime, ErrNil, [Deleted |-> r.val])
        /\ UNCHANGED <<deployItems, nScaled, concVars, svcItems, nodeItems, nsConcVars, lockVars,
                     diagVars, ledgerVars, obsVars>>

\* Store.Delete with its argument drawn from names
NsDeleteWith(names) ==
    \E name \in names :
        LET r == namespace_Delete(nsItems, name) IN
        /\ nsItems' = r.items
        /\ ret' = Call("namespace.Delete", name, 0, NoTime, ErrNil, [Deleted |-> r.val])
        /\ UNCHANGED <<deployItems, nScaled, concVars, podItems, svcItems, nodeItems, nsConcVars, lockVars,
                     diagVars, ledgerVars, obsVars>>

NsDelete == NsDeleteWith(NsNames)

PodList ==
    \E now \in Nows, order \in MapOrders(DOMAIN podItems) :
        /\ ret' = Call("pod.List", "", 0, now, ErrNil, pod_List(podItems, now, order))
        /\ UNCHANGED <<deployItems, nScaled, concVars, storeVars>>

PodGet ==
    \E name \in PodNames, now \in Nows :
      \E first \in FirstNamed(podItems, name) :
        LET r == pod_Get(podItems, name, now, first) IN
        /\ ret' = Call("pod.Get", name, 0, now, r.err, r.val)
        /\ UNCHANGED <<deployItems, nScaled, concVars, storeVars>>

SvcList ==
    \E now \in Nows, order \in MapOrders(DOMAIN svcItems) :
        /\ ret' = Call("service.List", "", 0, now, ErrNil, service_List(svcItems, now, order))
        /\ UNCHANGED <<deployItems, nScaled, concVars, storeVars>>

SvcGet ==
    \E name \in SvcNames, now \in Nows :
        LET r == service_Get(svcItems, name, now) IN
        /\ ret' = Call("service.Get", name, 0, now, r.err, r.val)
        /\ UNCHANGED <<deployItems, nScaled, concVars, storeVars>>

NodeList ==
    \E now \in Nows, order \in MapOrders(DOMAIN nodeItems) :
        /\ ret' = Call("node.List", "", 0, now, ErrNil, node_List(nodeItems, now, order))
        /\ UNCHANGED <<deployItems, nScaled, concVars, storeVars>>

NodeGet ==
    \E name \in NodeNames, now \in Nows :
        LET r == node_Get(nodeItems, name, now) IN
        /\ ret' = Call("node.Get", name, 0, now, r.err, r.val)
        /\ UNCHANGED <<deployItems, nScaled, concVars, storeVars>>

StoresScale == DeployScaleWith(StoresScaleArgs, Nows \ {StartTime})

NextStores ==
    \/ NsList \/ NsCreate \/ NsDelete
    \/ NodeList \/ NodeGet
    \/ PodList \/ PodGet
    \/ DeployList \/ DeployGet \/ StoresScale
    \/ SvcList \/ SvcGet

SpecStores == Init /\ [][NextStores]_vars

(***************************************************************************)
(* The namespace store alone, with the names and labels a client may send. *)
(***************************************************************************)
\* A name of 63 bytes, the longest the store takes, and one of 64.
Name63 == "a123456789b123456789c123456789d123456789e123456789f123456789xyz"
Name64 == Name63 \o "0"

\* Names passed to Create: names the store takes (one with surrounding white
\* space), a seeded name, and names it refuses: empty, blank, an upper-case
\* letter and an underscore, a hyphen first or last, a blank inside, too long.
NsCreateNames ==
    {"staging", "\tstaging\n", Name63, "default",
     "", "  ", "Invalid_Name", "-lead", "trail-", "a b", Name64}

\* Labels passed to Create: none (nil), and a map with a new key and a key
\* of the default labels.
NsCreateLabels ==
    {<<>>, ("team" :> "platform" @@ "kubernetes.io/metadata.name" :> "custom")}

\* Names passed to Delete.
NsDeleteNames == {"staging", " staging ", "monitoring", "missing"}

NsCreateAny == NsCreateWith(NsCreateNames, NsCreateLabels, Nows)

NsDeleteAny == NsDeleteWith(NsDeleteNames)

NextNs == NsCreateAny \/ NsDeleteAny

SpecNs == Init /\ [][NextNs]_vars

(***************************************************************************)
(* The deployment store called from several goroutines at once.  Each      *)
(* goroutine runs one call.  The steps of a call are its lock operations   *)
(* and its accesses to the shared map; what it computes on its locals      *)
(* belongs to the step of the access before.  The assignment               *)
(* s.items[key] = rec copies a struct and is not atomic: it is two writes, *)
(* the embedded Summary first.                                             *)
(***************************************************************************)
\* The calls a goroutine may run: (op, name, replicas).
ConcCalls ==
    { <<"Scale", "backend", 2>>, <<"Scale", "backend", 7>>, <<"Scale", "frontend", 0>>,
      <<"Scale", "missing", 2>>, <<"Scale", "backend", MaxReplicas + 1>>,
      <<"Get", "backend", 0>>, <<"Get", "missing", 0>>, <<"List", "", 0>> }

\* The instant goroutine t passes: the clock advances between requests.
ThreadNow(t) == Add(StartTime, t * Minute)

\* Lock taking the mutex as a reader does (Scale calling RLock)
LockShared(m, t) == IF m.w = 0 THEN {[m EXCEPT !.r = @ \cup {t}]} ELSE {}

\* sync.RWMutex.Lock by goroutine t: the mutex after it, none while held.
Lock(m, t) == IF m.w = 0 /\ m.r = {} THEN {[m EXCEPT !.w = t]} ELSE {}

\* sync.RWMutex.Unlock
Unlock(m, t) == [m EXCEPT !.w = IF @ = t THEN 0 ELSE @]

\* RLock not waiting for the writer (Get and List reading without the lock)
RLockNoWait(m, t) == {[m EXCEPT !.r = @ \cup {t}]}

\* sync.RWMutex.RLock
RLock(m, t) == IF m.w = 0 THEN {[m EXCEPT !.r = @ \cup {t}]} ELSE {}

\* sync.RWMutex.RUnlock
RUnlock(m, t) == [m EXCEPT !.r = @ \ {t}]

\* A goroutine enters a call.  Scale checks the replica count before it
\* touches the lock.
CStart(t) ==
    /\ th[t].pc = "idle"
    /\ \E c \in ConcCalls :
         LET base == [IdleThread EXCEPT !.op = c[1], !.name = c[2], !.n = c[3],
                                        !.now = ThreadNow(t)]
         IN  th' = [th EXCEPT ![t] =
                 IF c[1] = "Scale"
                 THEN IF c[3] < 0 \/ c[3] > MaxReplicas
                      THEN [base EXCEPT !.pc = "done", !.out = ZeroDetail,
                                        !.err = ErrInvalidReplicas]
                      ELSE [base EXCEPT !.pc = "lock"]
                 ELSE [base EXCEPT !.pc = "rlock"]]
    /\ UNCHANGED <<deployItems, mu, committed, seqVars, storeVars>>

\* s.mu.Lock() in Scale
CLock(t) ==
    /\ th[t].pc = "lock"
    /\ \E m \in Lock(mu, t) : mu' = m
    /\ th' = [th EXCEPT ![t].pc = "scan"]
    /\ UNCHANGED <<deployItems, committed, seqVars, storeVars>>

\* Scale's loop: it stops at the first record with the name and changes its
\* local copy, or ends without a match.
CScan(t) ==
    /\ th[t].pc = "scan"
    /\ \E first \in FirstNamed(deployItems, th[t].name) :
         th' = [th EXCEPT ![t] =
                 IF first = NoKey
                 THEN [@ EXCEPT !.pc = "unlock", !.out = ZeroDetail, !.err = ErrNotFound]
                 ELSE [@ EXCEPT !.pc = "store1", !.key = first,
                                !.rec = ScaleRecord(deployItems[first], th[t].n, th[t].now)]]
    /\ UNCHANGED <<deployItems, mu, committed, seqVars, storeVars>>

\* s.items[key] = rec, first part: the embedded Summary
CStore1(t) ==
    /\ th[t].pc = "store1"
    /\ deployItems' = [deployItems EXCEPT ![th[t].key].Summary = th[t].rec.Summary]
    /\ th' = [th EXCEPT ![t].pc = "store2"]
    /\ UNCHANGED <<mu, committed, seqVars, storeVars>>

\* s.items[key] = rec, the rest of the record; then toDetail(rec, now)
CStore2(t) ==
    /\ th[t].pc = "store2"
    /\ deployItems' = [deployItems EXCEPT ![th[t].key] = th[t].rec]
    /\ committed' = [committed EXCEPT ![th[t].key] = @ \cup {th[t].rec}]
    /\ th' = [th EXCEPT ![t].pc = "unlock", ![t].out = toDetail(th[t].rec, th[t].now),
                        ![t].err = ErrNil]
    /\ UNCHANGED <<mu, seqVars, storeVars>>

\* the deferred s.mu.Unlock() of Scale
CUnlock(t) ==
    /\ th[t].pc = "unlock"
    /\ mu' = Unlock(mu, t)
    /\ th' = [th EXCEPT ![t].pc = "done"]
    /\ UNCHANGED <<deployItems, committed, seqVars, storeVars>>

\* s.mu.RLock() in Get and List
CRLock(t) ==
    /\ th[t].pc = "rlock"
    /\ \E m \in RLock(mu, t) : mu' = m
    /\ th' = [th EXCEPT ![t].pc = "read"]
    /\ UNCHANGED <<deployItems, committed, seqVars, storeVars>>

\* the body of Get
CGet(t) ==
    /\ th[t].pc = "read" /\ th[t].op = "Get"
    /\ \E first \in FirstNamed(deployItems, th[t].name) :
         LET r == Get(deployItems, th[t].name, th[t].now, first) IN
         th' = [th EXCEPT ![t].pc = "runlock", ![t].key = first,
                          ![t].out = r.val, ![t].err = r.err]
    /\ UNCHANGED <<deployItems, mu, committed, seqVars, storeVars>>

\* the body of List
CList(t) ==
    /\ th[t].pc = "read" /\ th[t].op = "List"
    /\ \E order \in MapOrders(DOMAIN deployItems) :
         th' = [th EXCEPT ![t].pc = "runlock",
                          ![t].out = List(deployItems, th[t].now, order)]
    /\ UNCHANGED <<deployItems, mu, committed, seqVars, storeVars>>

\* the deferred s.mu.RUnlock() of Get and List
CRUnlock(t) ==
    /\ th[t].pc = "runlock"
    /\ mu' = RUnlock(mu, t)
    /\ th' = [th EXCEPT ![t].pc = "done"]
    /\ UNCHANGED <<deployItems, committed, seqVars, storeVars>>

NextConc ==
    \E t \in Threads :
        \/ CStart(t) \/ CLock(t) \/ CScan(t) \/ CStore1(t) \/ CStore2(t) \/ CUnlock(t)
        \/ CRLock(t) \/ CGet(t) \/ CList(t) \/ CRUnlock(t)

SpecConc == Init /\ [][NextConc]_vars

(***************************************************************************)
(* The namespace store called from several goroutines at once, each        *)
(* running one call.  Create checks the name before it takes the lock;     *)
(* under the lock the test of the map and the write to it are two steps.   *)
(***************************************************************************)
\* The calls a goroutine may run: (op, name, labels).
NsConcCalls ==
    { <<"Create", "staging", <<>>>>, <<"Create", " staging ", ("team" :> "platform")>>,
      <<"Create", "default", <<>>>>, <<"Create", "Invalid_Name", <<>>>>,
      <<"Delete", "monitoring", <<>>>>, <<"Delete", " monitoring", <<>>>>,
      <<"Delete", "staging", <<>>>> }

nsRest == <<deployItems, seqVars, concVars, podItems, svcItems, nodeItems, lockVars, diagVars, ledgerVars, obsVars>>

\* A goroutine enters Create or Delete: the name is stripped, and checked
\* in Create, before the lock is asked for.
NStart(t) ==
    /\ nsTh[t].pc = "idle"
    /\ \E c \in NsConcCalls :
         LET clean == TrimSpace(c[2])
             base  == [NsIdleThread EXCEPT !.op = c[1], !.name = c[2], !.clean = clean,
                                           !.labels = c[3], !.now = ThreadNow(t)]
         IN  nsTh' = [nsTh EXCEPT ![t] =
                 IF /\ c[1] = "Create"
                    /\ (clean = "" \/ Len(clean) > MaxNameLen \/ ~namespaceNameRegex(clean))
                 THEN [base EXCEPT !.pc = "done", !.err = namespace_ErrInvalidName]
                 ELSE [base EXCEPT !.pc = "lock"]]
    /\ UNCHANGED <<nsItems, nsMu, nsRest>>

\* s.mu.Lock() in Create and Delete
NLock(t) ==
    /\ nsTh[t].pc = "lock"
    /\ \E m \in Lock(nsMu, t) : nsMu' = m
    /\ nsTh' = [nsTh EXCEPT ![t].pc = "test"]
    /\ UNCHANGED <<nsItems, nsRest>>

\* _, exists := s.items[clean], and the return it decides
NTest(t) ==
    /\ nsTh[t].pc = "test"
    /\ nsTh' = [nsTh EXCEPT ![t] =
          IF nsTh[t].op = "Create"
          THEN IF nsTh[t].clean \in DOMAIN nsItems
               THEN [@ EXCEPT !.pc = "unlock", !.err = namespace_ErrExists]
               ELSE [@ EXCEPT !.pc = "write"]
          ELSE IF nsTh[t].clean \notin DOMAIN nsItems
               THEN [@ EXCEPT !.pc = "unlock", !.ok = FALSE]
               ELSE [@ EXCEPT !.pc = "write"]]
    /\ UNCHANGED <<nsItems, nsMu, nsRest>>

\* s.items[clean] = rec in Create, delete(s.items, clean) in Delete
NWrite(t) ==
    /\ nsTh[t].pc = "write"
    /\ IF nsTh[t].op = "Create"
       THEN LET rec == [Name |-> nsTh[t].clean, Status |-> "Active",
                        CreatedAt |-> UTC(nsTh[t].now),
                        Labels |-> mergeLabels(nsTh[t].clean, nsTh[t].labels)]
            IN  /\ nsItems' = [k \in DOMAIN nsItems \cup {nsTh[t].clean} |->
                                  IF k = nsTh[t].clean THEN rec ELSE nsItems[k]]
                /\ nsTh' = [nsTh EXCEPT ![t].pc = "unlock", ![t].err = ErrNil,
                                        ![t].out = namespace_toNamespace(rec, nsTh[t].now)]
       ELSE /\ nsItems' = [k \in DOMAIN nsItems \ {nsTh[t].clean} |-> nsItems[k]]
            /\ nsTh' = [nsTh EXCEPT ![t].pc = "unlock", ![t].ok = TRUE]
    /\ UNCHANGED <<nsMu, nsRest>>

\* the deferred s.mu.Unlock()
NUnlock(t) ==
    /\ nsTh[t].pc = "unlock"
    /\ nsMu' = Unlock(nsMu, t)
    /\ nsTh' = [nsTh EXCEPT ![t].pc = "done"]
    /\ UNCHANGED <<nsItems, nsRest>>

NextNsConc ==
    \E t \in Threads : NStart(t) \/ NLock(t) \/ NTest(t) \/ NWrite(t) \/ NUnlock(t)

SpecNsConc == Init /\ [][NextNsConc]_vars

(***************************************************************************)
(* Every store operation as the calls it makes on its store's mutex, run   *)
(* by goroutines under a fair scheduler.  A sync.RWMutex lets no new       *)
(* reader in while a goroutine is blocked in Lock.                         *)
(***************************************************************************)
\* s.mu.RLock(); defer s.mu.RUnlock() around a body
RSection(s) == << <<"RLock", s>>, <<"RUnlock", s>> >>

\* s.mu.Lock(); defer s.mu.Unlock() around a body
WSection(s) == << <<"Lock", s>>, <<"Unlock", s>> >>

\* The paths of the store operations: (store, operation, its lock calls).
\* Scale and Create return their argument errors before the lock;
\* UniqueLevels takes none; DescribeFilters and Summarize call two locking
\* operations one after the other.
OpPaths ==
    { <<"deploy", "List", RSection("deploy")>>,
      <<"deploy", "Get", RSection("deploy")>>,
      <<"deploy", "Scale", <<>>>>,
      <<"deploy", "Scale", WSection("deploy")>>,
      <<"namespace", "List", RSection("namespace")>>,
      <<"namespace", "Create", <<>>>>,
      <<"namespace", "Create", WSection("namespace")>>,
      <<"namespace", "Delete", WSection("namespace")>>,
      <<"node", "List", RSection("node")>>,
      <<"node", "Get", RSection("node")>>,
      <<"pod", "List", RSection("pod")>>,
      <<"pod", "Get", RSection("pod")>>,
      <<"service", "List", RSection("service")>>,
      <<"service", "Get", RSection("service")>>,
      <<"kubeconfig", "List", RSection("kubeconfig")>>,
      <<"kubeconfig", "Add", WSection("kubeconfig")>>,
      <<"logs", "ListLogs", RSection("logs")>>,
      <<"logs", "ListEvents", RSection("logs")>>,
      <<"logs", "AppendLog", WSection("logs")>>,
      <<"logs", "AppendEvent", WSection("logs")>>,
      <<"logs", "UniqueNamespaces", RSection("logs")>>,
      <<"logs", "UniquePods", RSection("logs")>>,
      <<"logs", "UniqueLevels", <<>>>>,
      <<"logs", "DescribeFilters", RSection("logs") \o RSection("logs")>>,
      <<"logs", "Summarize", RSection("logs") \o RSection("logs")>> }

\* The lock call goroutine t is at, <<"return", "">> past the last one.
Instr(t) ==
    IF calls[t].pc = "run" /\ calls[t].ip <= Len(calls[t].prog)
    THEN calls[t].prog[calls[t].ip]
    ELSE IF calls[t].pc = "run" THEN <<"return", "">> ELSE <<"", "">>

Advance(t) == calls' = [calls EXCEPT ![t].ip = @ + 1]

\* Unlock that leaves the mutex held
ReleaseNever(m, t) == m

\* sync.RWMutex.Unlock, of a mutex with blocked writers
Release(m, t) == [m EXCEPT !.w = IF @ = t THEN 0 ELSE @]

\* A request goroutine invokes a store operation.
KInvoke(t) ==
    /\ calls[t].pc = "idle"
    /\ \E o \in OpPaths :
         calls' = [calls EXCEPT ![t] = [pc |-> "run", op |-> o[1] \o "." \o o[2],
                                        prog |-> o[3], ip |-> 1]]
    /\ UNCHANGED <<locks, deployItems, seqVars, concVars, nsItems, podItems, svcItems,
                   nodeItems, nsConcVars, diagVars, ledgerVars, obsVars>>

\* s.mu.Lock() is called: t blocks, and blocks the readers that come after.
KLockAsk(t) ==
    /\ Instr(t)[1] = "Lock"
    /\ t \notin locks[Instr(t)[2]].p
    /\ locks' = [locks EXCEPT ![Instr(t)[2]].p = @ \cup {t}]
    /\ UNCHANGED <<calls, deployItems, seqVars, concVars, nsItems, podItems, svcItems,
                   nodeItems, nsConcVars, diagVars, ledgerVars, obsVars>>

\* s.mu.Lock() returns: no reader and no writer holds the mutex.
KLock(t) ==
    /\ Instr(t)[1] = "Lock"
    /\ t \in locks[Instr(t)[2]].p
    /\ locks[Instr(t)[2]].w = 0 /\ locks[Instr(t)[2]].r = {}
    /\ locks' = [locks EXCEPT ![Instr(t)[2]].w = t, ![Instr(t)[2]].p = @ \ {t}]
    /\ Advance(t)
    /\ UNCHANGED <<deployItems, seqVars, concVars, nsItems, podItems, svcItems,
                   nodeItems, nsConcVars, diagVars, ledgerVars, obsVars>>

\* the deferred s.mu.Unlock()
KUnlock(t) ==
    /\ Instr(t)[1] = "Unlock"
    /\ locks' = [locks EXCEPT ![Instr(t)[2]] = Release(@, t)]
    /\ Advance(t)
    /\ UNCHANGED <<deployItems, seqVars, concVars, nsItems, podItems, svcItems,
                   nodeItems, nsConcVars, diagVars, ledgerVars, obsVars>>

\* s.mu.RLock() returns: no writer holds the mutex or is blocked on it.
KRLock(t) ==
    /\ Instr(t)[1] = "RLock"
    /\ locks[Instr(t)[2]].w = 0 /\ locks[Instr(t)[2]].p = {}
    /\ locks' = [locks EXCEPT ![Instr(t)[2]].r = @ \cup {t}]
    /\ Advance(t)
    /\ UNCHANGED <<deployItems, seqVars, concVars, nsItems, podItems, svcItems,
                   nodeItems, nsConcVars, diagVars, ledgerVars, obsVars>>

\* the deferred s.mu.RUnlock()
KRUnlock(t) ==
    /\ Instr(t)[1] = "RUnlock"
    /\ locks' = [locks EXCEPT ![Instr(t)[2]].r = @ \ {t}]
    /\ Advance(t)
    /\ UNCHANGED <<deployItems, seqVars, concVars, nsItems, podItems, svcItems,
                   nodeItems, nsConcVars, diagVars, ledgerVars, obsVars>>

\* The operation returns to its caller.
KReturn(t) ==
    /\ Instr(t)[1] = "return"
    /\ calls' = [calls EXCEPT ![t].pc = "done"]
    /\ UNCHANGED <<locks, deployItems, seqVars, concVars, nsItems, podItems, svcItems,
                   nodeItems, nsConcVars, diagVars, ledgerVars, obsVars>>

\* A step of goroutine t inside its operation.
KStep(t) == KLockAsk(t) \/ KLock(t) \/ KUnlock(t) \/ KRLock(t) \/ KRUnlock(t) \/ KReturn(t)

NextFair ==
    \E t \in Callers :
        \/ KInvoke(t)
        \/ KLockAsk(t)
        \/ KLock(t)
        \/ KUnlock(t)
        \/ KRLock(t)
        \/ KRUnlock(t)
        \/ KReturn(t)

\* The Go scheduler runs every goroutine that can run.
SpecFair == Init /\ [][NextFair]_vars /\ \A t \in Callers : WF_vars(KStep(t))

(***************************************************************************)
(* The age a store shows for a record, read at two instants, and the age   *)
(* string of a duration.                                                   *)
(***************************************************************************)
MaxAgeHours == 37     \* whole hours of the durations formatAge is applied to

\* Durations around the unit boundaries: below zero, seconds, minutes,
\* hours and days.
AgeDurations ==
    {0 - 24 * Hour, 0 - 1}
    \cup {h * Hour + m * Minute + sec * Second :
            h \in 0..MaxAgeHours, m \in {0, 59}, sec \in {0, 59}}

\* Distances of a reference instant from the creation of a record.
AgeOffsets ==
    {0 - Hour, 0 - 1, 0, 59, Hour - 1, Hour, 24 * Hour - 1, 24 * Hour + Minute,
     48 * Hour - 1}

\* The records of the five stores: (store, record).
StoredRecords ==
    {<<"deploy", deployItems[k]>> : k \in DOMAIN deployItems}
    \cup {<<"namespace", nsItems[k]>> : k \in DOMAIN nsItems}
    \cup {<<"pod", podItems[k]>> : k \in DOMAIN podItems}
    \cup {<<"service", svcItems[k]>> : k \in DOMAIN svcItems}
    \cup {<<"node", nodeItems[k]>> : k \in DOMAIN nodeItems}

\* The name of a record of a store.
RecordName(store, rec) ==
    IF store \in {"namespace", "node"} THEN rec.Name ELSE rec.Summary.Name

\* The age List and Get of a store show for a record at `now`.
AgeShown(store, rec, now) ==
    CASE store = "deploy"    -> decorateSummary(rec.Summary, rec.CreatedAt, now).Age
      [] store = "namespace" -> namespace_toNamespace(rec, now).Age
      [] store = "pod"       -> pod_decorateSummary(rec.Summary, rec.CreatedAt, now).Age
      [] store = "service"   -> service_decorateSummary(rec.Summary, rec.CreatedAt, now).Age
      [] store = "node"      -> toSummary(rec, now).Age

\* A record is read at now1 and again, in another zone, at now2 >= now1.
AgeOfRecord ==
    \E sr \in StoredRecords, d1 \in AgeOffsets, d2 \in AgeOffsets :
        /\ d1 <= d2
        /\ LET now1 == Add(sr[2].CreatedAt, d1)
               now2 == [sec |-> sr[2].CreatedAt.sec + d2, off |-> 8 * Hour]
           IN  ret' = Call(sr[1] \o ".Age", RecordName(sr[1], sr[2]), 0, now1, ErrNil,
                           [Created |-> sr[2].CreatedAt, Now2 |-> now2,
                            Age1 |-> AgeShown(sr[1], sr[2], now1),
                            Age2 |-> AgeShown(sr[1], sr[2], now2)])
        /\ UNCHANGED <<deployItems, nScaled, concVars, storeVars>>

\* formatAge is applied to a duration.
AgeOfDuration ==
    \E d \in AgeDurations :
        /\ ret' = Call("formatAge", "", d, NoTime, ErrNil, [Age |-> formatAge(d)])
        /\ UNCHANGED <<deployItems, nScaled, concVars, storeVars>>

NextAge == AgeOfRecord \/ AgeOfDuration

SpecAge == Init /\ [][NextAge]_vars

(***************************************************************************)
(* The diagnostic store, one call at a time.                               *)
(***************************************************************************)
MaxFreeAppends == 1   \* AppendLog calls whose entry is drawn from LogEntries

LogFilter(namespace, pod, level, limit) ==
    [Namespace |-> namespace, Pod |-> pod, Level |-> level, Limit |-> limit]

\* The filters a client may send.
LogFilters ==
    { LogFilter("", "", "", 0),
      LogFilter("PROD", "", "", 5),
      LogFilter(" prod ", "", "", MaxLimit),
      LogFilter("", "", "error", 10),
      LogFilter("", "API-1", " Error", 0 - 1),
      LogFilter("  ", "", "", MaxLimit + 1),
      LogFilter("prod", "edge-gateway-7d8fdc9f7c-9012a", "INFO", DefaultLimit),
      LogFilter("staging", "", "", 1) }

LogEntry(timestamp, namespace, pod, level, message) ==
    [Timestamp |-> timestamp, Namespace |-> namespace, Pod |-> pod, Level |-> level,
     Message |-> message]

\* The entries the first AppendLog calls may carry.
LogEntries ==
    { LogEntry("", "Prod", "api-1", "error", "first, no timestamp"),
      LogEntry("2024-07-12T11:00:00Z", " prod", "API-1", "Warn", "first, an hour old"),
      LogEntry("yesterday", "prod", "api-0", "debug", "first, no RFC 3339 timestamp") }

\* The entry of the n-th AppendLog call after them.
LaterEntry(n) ==
    LogEntry("2024-07-12T20:01:00+08:00",
             <<"prod", "Prod", "batch">>[(n % 3) + 1],
             "api-" \o ToString(n % 2),
             <<"info", "Warn", "ERROR", "debug">>[(n % 4) + 1],
             "line " \o ToString(n))

AppendInputs(n) == IF n < MaxFreeAppends THEN LogEntries ELSE {LaterEntry(n)}

LogsList ==
    \E now \in Nows, filter \in LogFilters :
        /\ ret' = Call("logs.ListLogs", "", 0, now, ErrNil,
                       [Filter |-> filter, Entries |-> ListLogs(logRecords, now, filter)])
        /\ UNCHANGED <<deployItems, nScaled, concVars, nsItems, podItems, svcItems, nodeItems,
                       nsConcVars, lockVars, diagVars, ledgerVars, obsVars>>

LogsAppendWith(max) ==
    /\ Len(logCalls) < max
    /\ \E entry \in AppendInputs(Len(logCalls)), wall \in {Add(StartTime, 2 * Minute)} :
        /\ logRecords' = AppendLog(logRecords, entry, wall)
        /\ logCalls' = Append(logCalls, entry)
        /\ ret' = Call("logs.AppendLog", "", 0, wall, ErrNil, [Entry |-> entry])
        /\ df' = Observe(df, AppendLog(logRecords, entry, wall), eventRecords)
        /\ UNCHANGED <<deployItems, nScaled, concVars, nsItems, podItems, svcItems, nodeItems,
                       nsConcVars, lockVars, eventRecords, ledgerVars, nsHeld, twin>>

LogsAppend == LogsAppendWith(MaxAppends)

NextLogs == LogsList \/ LogsAppend

SpecLogs == Init /\ [][NextLogs]_vars

(***************************************************************************)
(* The diagnostic store with its events and its projections.               *)
(***************************************************************************)
Event(timestamp, namespace, name) ==
    [Timestamp |-> timestamp, Namespace |-> namespace, Kind |-> "Pod", Name |-> name,
     Type |-> "Normal", Reason |-> "Started", Message |-> "Started container", Count |-> 1]

\* The events a caller may append: no timestamp, a timestamp of a zone
\* behind UTC that states the newest instant, one older than the seed, and
\* one of a zone ahead of UTC.
EventInputs ==
    { Event("", "staging", "api-0"),
      Event("2024-07-12T01:00:00-12:00", "prod", "api-1"),
      Event("2024-07-12T11:00:00Z", "prod", "api-1"),
      Event("2024-07-12T20:01:00+08:00", "batch", "api-2") }

\* What time.Now() may return: an instant after the start, in some zone.
WallClocks ==
    {Add(StartTime, 2 * Minute), [sec |-> StartTime.sec + 3 * Minute, off |-> 8 * Hour]}

diagRest == <<deployItems, nScaled, concVars, nsItems, podItems, svcItems, nodeItems,
              nsConcVars, lockVars, ledgerVars, nsHeld, twin>>

DiagAppendLog == LogsAppendWith(MaxDiagAppends)

EventsAppend ==
    /\ Len(eventRecords) < Len(defaultEvents(StartTime)) + MaxEventAppends
    /\ \E ev \in EventInputs, wall \in WallClocks :
        /\ eventRecords' = AppendEvent(eventRecords, ev, wall)
        /\ ret' = Call("logs.AppendEvent", "", 0, wall, ErrNil, [Event |-> ev])
        /\ df' = Observe(df, logRecords, AppendEvent(eventRecords, ev, wall))
        /\ UNCHANGED <<diagRest, logRecords, logCalls>>

\* ListEvents sorting the store's own slice
EventsListInPlace ==
    \E now \in Nows :
        /\ ret' = Call("logs.ListEvents", "", 0, now, ErrNil,
                       [Events |-> ListEvents(eventRecords, now)])
        /\ eventRecords' =
              SortSlice(eventRecords,
                        [p \in Elems(eventRecords) \X Elems(eventRecords) |->
                            StrLess(toEvent(p[2]).Timestamp, toEvent(p[1]).Timestamp)])
        /\ UNCHANGED <<diagRest, logRecords, logCalls, df>>

EventsList ==
    \E now \in Nows :
        /\ ret' = Call("logs.ListEvents", "", 0, now, ErrNil,
                       [Events |-> ListEvents(eventRecords, now)])
        /\ UNCHANGED <<diagRest, diagVars, df>>

DiagUniqueNamespaces ==
    /\ ret' = Call("logs.UniqueNamespaces", "", 0, NoTime, ErrNil,
                   [Names |-> UniqueNamespaces(logRecords, eventRecords)])
    /\ UNCHANGED <<diagRest, diagVars, df>>

DiagUniquePods ==
    /\ ret' = Call("logs.UniquePods", "", 0, NoTime, ErrNil,
                   [Names |-> UniquePods(logRecords)])
    /\ UNCHANGED <<diagRest, diagVars, df>>

DiagUniqueLevels ==
    /\ ret' = Call("logs.UniqueLevels", "", 0, NoTime, ErrNil, [Names |-> UniqueLevels])
    /\ UNCHANGED <<diagRest, diagVars, df>>

DiagDescribeFilters ==
    /\ ret' = Call("logs.DescribeFilters", "", 0, NoTime, ErrNil,
                   DescribeFilters(logRecords, eventRecords))
    /\ UNCHANGED <<diagRest, diagVars, df>>

DiagSummarize ==
    \E now \in Nows :
        /\ ret' = Call("logs.Summarize", "", 0, now, ErrNil,
                       Summarize(logRecords, eventRecords, now))
        /\ UNCHANGED <<diagRest, diagVars, df>>

NextDiag ==
    \/ DiagAppendLog
    \/ EventsAppend
    \/ EventsList
    \/ DiagUniqueNamespaces
    \/ DiagUniquePods
    \/ DiagUniqueLevels
    \/ DiagDescribeFilters
    \/ DiagSummarize

SpecDiag == Init /\ [][NextDiag]_vars

(***************************************************************************)
(* DescribeFilters run by one goroutine while others append.  It calls     *)
(* UniqueNamespaces, UniquePods and UniqueLevels in turn; each of the      *)
(* first two holds the read lock for its own body only, and an append      *)
(* holds the write lock for the whole of its body.                         *)
(***************************************************************************)
filtersRest == <<deployItems, nScaled, concVars, nsItems, podItems, svcItems, nodeItems,
                 nsConcVars, lockVars, ledgerVars, nsHeld, twin, diagVars>>

FiltersStart ==
    /\ df.pc \in {"idle", "done"}
    /\ df' = [pc |-> "namespaces", namespaces |-> <<>>, pods |-> <<>>,
              states |-> {<<logRecords, eventRecords>>}]
    /\ UNCHANGED <<ret, filtersRest>>

FiltersNamespaces ==
    /\ df.pc = "namespaces"
    /\ df' = [df EXCEPT !.pc = "pods",
                        !.namespaces = UniqueNamespaces(logRecords, eventRecords)]
    /\ UNCHANGED <<ret, filtersRest>>

FiltersPods ==
    /\ df.pc = "pods"
    /\ df' = [df EXCEPT !.pc = "levels", !.pods = UniquePods(logRecords)]
    /\ UNCHANGED <<ret, filtersRest>>

FiltersReturn ==
    /\ df.pc = "levels"
    /\ df' = [df EXCEPT !.pc = "done"]
    /\ ret' = Call("logs.DescribeFilters", "", 0, NoTime, ErrNil,
                   [namespaces |-> df.namespaces, pods |-> df.pods, levels |-> UniqueLevels])
    /\ UNCHANGED filtersRest

NextFilters ==
    \/ FiltersStart \/ FiltersNamespaces \/ FiltersPods \/ FiltersReturn
    \/ DiagAppendLog \/ EventsAppend

SpecFilters == Init /\ [][NextFilters]_vars

(***************************************************************************)
(* Two diagnostic stores built at the same instant and given the same      *)
(* calls with the same arguments.  Each store reads time.Now() for itself. *)
(***************************************************************************)
twinRest == <<deployItems, nScaled, concVars, nsItems, podItems, svcItems, nodeItems,
              nsConcVars, lockVars, ledgerVars, nsHeld, df>>

TwinAppendLog ==
    /\ Len(logCalls) < MaxTwinAppends
    /\ \E entry \in LogEntries, wall \in WallClocks, wallOfTwin \in WallClocks :
        /\ logRecords' = AppendLog(logRecords, entry, wall)
        /\ twin' = [twin EXCEPT !.logs = AppendLog(@, entry, wallOfTwin)]
        /\ logCalls' = Append(logCalls, entry)
        /\ ret' = Call("logs.AppendLog", "", 0, NoTime, ErrNil, [Entry |-> entry])
        /\ UNCHANGED <<twinRest, eventRecords>>

TwinAppendEvent ==
    /\ Len(eventRecords) < Len(defaultEvents(StartTime)) + MaxTwinAppends
    /\ \E ev \in EventInputs, wall \in WallClocks, wallOfTwin \in WallClocks :
        /\ eventRecords' = AppendEvent(eventRecords, ev, wall)
        /\ twin' = [twin EXCEPT !.events = AppendEvent(@, ev, wallOfTwin)]
        /\ ret' = Call("logs.AppendEvent", "", 0, NoTime, ErrNil, [Event |-> ev])
        /\ UNCHANGED <<twinRest, logRecords, logCalls>>

TwinListLogs ==
    \E now \in Nows, filter \in {LogFilter("", "", "", 0), LogFilter("prod", "", "error", 5)} :
        /\ ret' = Call("logs.ListLogs", "", 0, now, ErrNil,
                       [Filter |-> filter,
                        Result |-> ListLogs(logRecords, now, filter),
                        OfTwin |-> ListLogs(twin.logs, now, filter)])
        /\ UNCHANGED <<twinRest, diagVars, twin>>

TwinListEvents ==
    \E now \in Nows :
        /\ ret' = Call("logs.ListEvents", "", 0, now, ErrNil,
                       [Result |-> ListEvents(eventRecords, now),
                        OfTwin |-> ListEvents(twin.events, now)])
        /\ UNCHANGED <<twinRest, diagVars, twin>>

NextTwin == TwinAppendLog \/ TwinAppendEvent \/ TwinListLogs \/ TwinListEvents

SpecTwin == Init /\ [][NextTwin]_vars

(***************************************************************************)
(* The import ledger behind its two handlers.  A request is its method,    *)
(* whether its body is a readable multipart form, whether the form has a   *)
(* part named file, that part's file name and the document in it.  A       *)
(* document is what the YAML decoder makes of it: whether it decodes, and  *)
(* the clusters, contexts and current-context it declares.                 *)
(***************************************************************************)
StatusOK               == 200
StatusCreated          == 201
StatusNoContent        == 204
StatusBadRequest       == 400
StatusNotFound         == 404
StatusMethodNotAllowed == 405
StatusConflict         == 409
StatusInternalServerError == 500

ErrDecode     == "parse kubeconfig failed"
ErrNoClusters == "kubeconfig has no clusters"

Document(decodes, clusters, contexts, currentContext) ==
    [Decodes |-> decodes, Clusters |-> clusters, Contexts |-> contexts,
     CurrentContext |-> currentContext]

NoSummary == Summary("", <<>>, <<>>, "", NoTime)

ParseAnyClusters(doc, now) ==
    IF ~doc.Decodes THEN [err |-> ErrDecode, val |-> NoSummary]
    ELSE [err |-> ErrNil,
          val |-> Summary(TrimSpace(doc.CurrentContext), <<>>, <<>>,
                          TrimSpace(doc.CurrentContext), now)]

Parse(doc, now) ==
    IF ~doc.Decodes THEN [err |-> ErrDecode, val |-> NoSummary]
    ELSE IF Len(doc.Clusters) = 0 THEN [err |-> ErrNoClusters, val |-> NoSummary]
    ELSE LET contexts == [i \in 1..Len(doc.Contexts) |->
                            Context(TrimSpace(doc.Contexts[i].Name),
                                    TrimSpace(doc.Contexts[i].Cluster),
                                    TrimSpace(doc.Contexts[i].User))]
             name == IF doc.CurrentContext = "" /\ Len(contexts) > 0
                     THEN contexts[1].Name ELSE doc.CurrentContext
         IN [err |-> ErrNil,
             val |-> Summary(TrimSpace(name),
                             [i \in 1..Len(doc.Clusters) |->
                                Cluster(TrimSpace(doc.Clusters[i].Name),
                                        TrimSpace(doc.Clusters[i].Server))],
                             contexts, TrimSpace(doc.CurrentContext), now)]

\* The index of the last ch in s, 0 when s has none.
RECURSIVE LastIndex(_, _)
LastIndex(s, ch) ==
    IF s = "" THEN 0
    ELSE IF CharAt(s, Len(s)) = ch THEN Len(s)
    ELSE LastIndex(SubSeq(s, 1, Len(s) - 1), ch)

RECURSIVE TrimSlashes(_)
TrimSlashes(path) ==
    IF Len(path) > 0 /\ CharAt(path, Len(path)) = "/"
    THEN TrimSlashes(SubSeq(path, 1, Len(path) - 1)) ELSE path

\* filepath.Base
Base(path) ==
    IF path = "" THEN "."
    ELSE LET p    == TrimSlashes(path)
             last == SubSeq(p, LastIndex(p, "/") + 1, Len(p))
         IN IF last = "" THEN "/" ELSE last

\* filepath.Ext
Ext(path) ==
    LET dot == LastIndex(path, ".")
    IN IF dot > LastIndex(path, "/") THEN SubSeq(path, dot, Len(path)) ELSE ""

TrimSuffix(s, suffix) ==
    IF Len(s) >= Len(suffix) /\ SubSeq(s, Len(s) - Len(suffix) + 1, Len(s)) = suffix
    THEN SubSeq(s, 1, Len(s) - Len(suffix)) ELSE s

\* The response of handleClusterImport and the ledger it leaves.
handleClusterImport(items, r, now) ==
    IF r.Method # "POST"
    THEN [status |-> StatusMethodNotAllowed, body |-> "method not allowed", items |-> items]
    ELSE IF ~r.Form
    THEN [status |-> StatusBadRequest, body |-> "reading the upload failed", items |-> items]
    ELSE IF ~r.File
    THEN [status |-> StatusBadRequest, body |-> "no kubeconfig file", items |-> items]
    ELSE LET parsed  == Parse(r.Document, now)
             summary == IF parsed.val.Name = ""
                        THEN [parsed.val EXCEPT
                                !.Name = TrimSuffix(Base(r.Filename), Ext(r.Filename))]
                        ELSE parsed.val
         IN IF parsed.err # ErrNil
            THEN [status |-> StatusBadRequest, body |-> parsed.err, items |-> items]
            ELSE [status |-> StatusCreated, body |-> summary,
                  items |-> kubeconfig_Add(items, summary)]

\* The response of handleClusterImports.
handleClusterImports(items, r) ==
    IF r.Method # "GET"
    THEN [status |-> StatusMethodNotAllowed, body |-> "method not allowed"]
    ELSE [status |-> StatusOK, body |-> kubeconfig_List(items).items]

Request(method, form, file, filename, document) ==
    [Method |-> method, Form |-> form, File |-> file, Filename |-> filename,
     Document |-> document]

MalformedDoc == Document(FALSE, <<>>, <<>>, "")

NoClustersDoc == Document(TRUE, <<>>, <<Context("dev", "kind", "admin")>>, "dev")

NamedDoc ==
    Document(TRUE, <<Cluster(" kind ", "https://127.0.0.1:6443 ")>>,
             <<Context("dev", "kind", "admin")>>, " dev ")

ByContextDoc ==
    Document(TRUE, <<Cluster("kind", "https://127.0.0.1:6443")>>,
             <<Context(" first ", "kind", "admin")>>, "")

NamelessDoc == Document(TRUE, <<Cluster("kind", "https://127.0.0.1:6443")>>, <<>>, "")

Requests ==
    { Request("GET", TRUE, TRUE, "config.yaml", NamedDoc),
      Request("POST", FALSE, FALSE, "", MalformedDoc),
      Request("POST", TRUE, FALSE, "", MalformedDoc),
      Request("POST", TRUE, TRUE, "config.yaml", MalformedDoc),
      Request("POST", TRUE, TRUE, "config.yaml", NoClustersDoc),
      Request("POST", TRUE, TRUE, "config.yaml", NamedDoc),
      Request("POST", TRUE, TRUE, "config.yaml", ByContextDoc),
      Request("POST", TRUE, TRUE, "kube.config.yaml", NamelessDoc) }

\* The summaries a caller of the store hands to Add: the second states an
\* earlier import than the first.
Summaries ==
    { Summary("dev", <<Cluster("kind", "https://127.0.0.1:6443")>>, <<>>, "dev", StartTime),
      Summary("old", <<Cluster("kind", "https://127.0.0.1:6443")>>, <<>>, "old",
              Add(StartTime, 0 - Hour)) }

\* What a caller writes over an element of a slice it got from List.
Scribble == Summary("overwritten", <<>>, <<>>, "", NoTime)

ledgerRest == <<deployItems, nScaled, concVars, nsItems, podItems, svcItems, nodeItems,
                nsConcVars, lockVars, diagVars, obsVars>>

LedgerAdd ==
    /\ Len(kcAdds) < MaxImports
    /\ \E summary \in Summaries :
        /\ kcItems' = kubeconfig_Add(kcItems, summary)
        /\ kcAdds' = Append(kcAdds, summary)
        /\ kcView' = [kcView EXCEPT !.shared = FALSE]
        /\ ret' = Call("kubeconfig.Add", "", 0, NoTime, ErrNil, [Summary |-> summary])
        /\ UNCHANGED ledgerRest

LedgerList ==
    /\ kcView' = kubeconfig_List(kcItems)
    /\ ret' = Call("kubeconfig.List", "", 0, NoTime, ErrNil,
                   [Items |-> kubeconfig_List(kcItems).items])
    /\ UNCHANGED <<kcItems, kcAdds, ledgerRest>>

\* The caller assigns to an element of the slice List gave it.
CallerWrite ==
    \E i \in 1..Len(kcView.items) :
        /\ \A j \in 1..Len(kcView.items) : kcView.items[j] # Scribble
        /\ kcView' = [kcView EXCEPT !.items[i] = Scribble]
        /\ kcItems' = IF kcView.shared THEN [kcItems EXCEPT ![i] = Scribble] ELSE kcItems
        /\ ret' = Call("caller.Write", "", i, NoTime, ErrNil, [Items |-> kcView'.items])
        /\ UNCHANGED <<kcAdds, ledgerRest>>

ClusterImport ==
    \E r \in Requests, now \in {Add(StartTime, Minute)} :
        LET resp == handleClusterImport(kcItems, r, now) IN
        /\ resp.status = StatusCreated => Len(kcAdds) < MaxImports
        /\ kcItems' = resp.items
        /\ kcAdds' = IF resp.status = StatusCreated THEN Append(kcAdds, resp.body)
                      ELSE kcAdds
        /\ kcView' = IF resp.status = StatusCreated THEN [kcView EXCEPT !.shared = FALSE]
                      ELSE kcView
        /\ ret' = Call("handleClusterImport", "", resp.status, now, ErrNil,
                       [Request |-> r, Body |-> resp.body])
        /\ UNCHANGED ledgerRest

ClusterImports ==
    \E method \in {"GET", "POST"} :
        LET r    == Request(method, FALSE, FALSE, "", MalformedDoc)
            resp == handleClusterImports(kcItems, r)
        IN
        /\ ret' = Call("handleClusterImports", "", resp.status, NoTime, ErrNil,
                       [Request |-> r, Body |-> resp.body])
        /\ UNCHANGED <<ledgerVars, ledgerRest>>

NextLedger == LedgerAdd \/ LedgerList \/ CallerWrite \/ ClusterImport \/ ClusterImports

SpecLedger == Init /\ [][NextLedger]_vars

(***************************************************************************)
(* The namespace store and a caller that keeps a labels map: the one it    *)
(* passed to Create, or the one of a view that Create or List returned.    *)
(* mergeLabels fills a map of its own; toNamespace puts rec.Labels itself  *)
(* into the view.  Assigning to a nil map panics, so the caller writes to  *)
(* maps with entries only.                                                 *)
(***************************************************************************)
aliasRest == <<deployItems, nScaled, concVars, podItems, svcItems, nodeItems, nsConcVars,
               lockVars, diagVars, ledgerVars, twin, df>>

\* The map in a view that toNamespace made of the record stored under name.
ViewLabels(items, name) == [name |-> name, labels |-> items[name].Labels, shared |-> TRUE]

AliasCreate ==
    \E name \in {"staging", " default "}, l \in NsLabels, now \in {StartTime},
       keeps \in {"input", "view"} :
        LET r == namespace_Create(nsItems, name, now, l) IN
        /\ nsItems' = r.items
        /\ nsHeld' = IF keeps = "input"
                      THEN [name |-> TrimSpace(name), labels |-> l, shared |-> FALSE]
                      ELSE IF r.err = ErrNil THEN ViewLabels(r.items, r.val.Name)
                      ELSE NoLabels
        /\ ret' = CallLabels("namespace.Create", name, l, now, r.err, r.val)
        /\ UNCHANGED aliasRest

AliasList ==
    \E now \in {StartTime}, name \in DOMAIN nsItems :
        /\ nsHeld' = ViewLabels(nsItems, name)
        /\ ret' = Call("namespace.List", "", 0, now, ErrNil,
                       namespace_List(nsItems, now, SortedKeys(DOMAIN nsItems)))
        /\ UNCHANGED <<nsItems, aliasRest>>

AliasDelete ==
    \E name \in {"staging", "default"} :
        LET r == namespace_Delete(nsItems, name) IN
        /\ nsItems' = r.items
        /\ nsHeld' = IF r.val /\ nsHeld.name = TrimSpace(name)
                      THEN [nsHeld EXCEPT !.shared = FALSE] ELSE nsHeld
        /\ ret' = Call("namespace.Delete", name, 0, NoTime, ErrNil, [Deleted |-> r.val])
        /\ UNCHANGED aliasRest

\* The caller assigns to a key of the map it holds.
CallerSetLabel ==
    \E k \in {"team"} :
        LET labels == [j \in DOMAIN nsHeld.labels \cup {k} |->
                          IF j = k THEN "changed" ELSE nsHeld.labels[j]]
        IN
        /\ DOMAIN nsHeld.labels # {}
        /\ labels # nsHeld.labels
        /\ nsHeld' = [nsHeld EXCEPT !.labels = labels]
        /\ nsItems' = IF nsHeld.shared
                       THEN [nsItems EXCEPT ![nsHeld.name].Labels = labels]
                       ELSE nsItems
        /\ ret' = CallLabels("caller.SetLabel", nsHeld.name, labels, NoTime, ErrNil, <<>>)
        /\ UNCHANGED aliasRest

NextNsAlias == AliasCreate \/ AliasList \/ AliasDelete \/ CallerSetLabel

SpecNsAlias == Init /\ [][NextNsAlias]_vars

(***************************************************************************)
(* The namespace endpoints.  A request is its method, the path of its URL  *)
(* and its body: whether it can be read, whether it is JSON that fits the  *)
(* request type, and the name and labels it then carries.                  *)
(***************************************************************************)
TrimPrefix(s, prefix) ==
    IF Len(s) >= Len(prefix) /\ SubSeq(s, 1, Len(prefix)) = prefix
    THEN SubSeq(s, Len(prefix) + 1, Len(s)) ELSE s

Response(status, body, items) == [status |-> status, body |-> body, items |-> items]

handleNamespacesList(items, now, order) ==
    Response(StatusOK, namespace_List(items, now, order), items)

handleNamespaceCreate(items, r, now) ==
    IF ~r.Body.Readable
    THEN Response(StatusBadRequest, "unable to read request body", items)
    ELSE IF ~r.Body.Valid
    THEN Response(StatusBadRequest, "invalid JSON payload", items)
    ELSE LET c == namespace_Create(items, r.Body.Name, now, r.Body.Labels) IN
         IF c.err = ErrNil THEN Response(StatusCreated, c.val, c.items)
         ELSE IF c.err = namespace_ErrInvalidName
         THEN Response(StatusBadRequest, [Error |-> "invalid namespace name"], c.items)
         ELSE IF c.err = namespace_ErrExists
         THEN Response(StatusConflict, [Error |-> "namespace exists"], c.items)
         ELSE Response(StatusInternalServerError, "failed to create namespace", c.items)

handleNamespaces(items, r, now, order) ==
    IF r.Method = "GET" THEN handleNamespacesList(items, now, order)
    ELSE IF r.Method = "POST" THEN handleNamespaceCreate(items, r, now)
    ELSE Response(StatusMethodNotAllowed, "method not allowed", items)

handleNamespaceByName(items, r) ==
    IF r.Method # "DELETE"
    THEN Response(StatusMethodNotAllowed, "method not allowed", items)
    ELSE LET name == TrimPrefix(r.Path, "/api/namespaces/") IN
         IF name = "" THEN Response(StatusNotFound, "404 page not found", items)
         ELSE LET d == namespace_Delete(items, name) IN
              IF ~d.val THEN Response(StatusNotFound, "namespace not found", d.items)
              ELSE Response(StatusNoContent, "", d.items)

\* The two patterns registerRoutes gives the mux for the namespaces.
ServeNamespaces(items, r, now, order) ==
    IF r.Path = "/api/namespaces" THEN handleNamespaces(items, r, now, order)
    ELSE handleNamespaceByName(items, r)

JSONBody(readable, valid, name, labels) ==
    [Readable |-> readable, Valid |-> valid, Name |-> name, Labels |-> labels]

NoBody == JSONBody(TRUE, FALSE, "", <<>>)

HTTPRequest(method, path, body) == [Method |-> method, Path |-> path, Body |-> body]

NsRequests ==
    {HTTPRequest(m, "/api/namespaces", NoBody) : m \in {"GET", "PUT", "DELETE"}}
    \cup {HTTPRequest("POST", "/api/namespaces", b) :
             b \in { JSONBody(FALSE, FALSE, "", <<>>),
                     NoBody,
                     JSONBody(TRUE, TRUE, "", <<>>),
                     JSONBody(TRUE, TRUE, "Invalid_Name", <<>>),
                     JSONBody(TRUE, TRUE, "default", <<>>),
                     JSONBody(TRUE, TRUE, "staging", <<>>),
                     JSONBody(TRUE, TRUE, " staging ", ("team" :> "platform")) }}
    \cup {HTTPRequest(m, "/api/namespaces/" \o n, NoBody) :
             m \in {"DELETE", "GET", "POST"}, n \in {"", "staging", "default", " staging "}}

NamespacesRequest ==
    \E r \in NsRequests, now \in Nows :
    \E order \in IF r.Method = "GET" /\ r.Path = "/api/namespaces"
                 THEN MapOrders(DOMAIN nsItems) ELSE {<<>>} :
        LET resp == ServeNamespaces(nsItems, r, now, order) IN
        /\ nsItems' = resp.items
        /\ ret' = Call("ServeHTTP", r.Path, resp.status, now, ErrNil,
                       [Request |-> r, Body |-> resp.body])
        /\ UNCHANGED <<deployItems, nScaled, concVars, podItems, svcItems, nodeItems,
                       nsConcVars, lockVars, diagVars, ledgerVars, obsVars>>

NextNsHTTP == NamespacesRequest

SpecNsHTTP == Init /\ [][NextNsHTTP]_vars

(***************************************************************************)
(* The deployment endpoint by name.  The body of a request is what the     *)
(* JSON decoder makes of it for a scaleRequest: whether it decodes,        *)
(* whether it has a replicas member, and that member.                      *)
(***************************************************************************)
\* strings.Split(s, "/")
RECURSIVE Split(_)
Split(s) ==
    LET RECURSIVE Slash(_)
        \* the index of the first "/" of s from i on, 0 when there is none
        Slash(i) == IF i > Len(s) THEN 0
                    ELSE IF CharAt(s, i) = "/" THEN i ELSE Slash(i + 1)
        at == Slash(1)
    IN  IF at = 0 THEN <<s>>
        ELSE <<SubSeq(s, 1, at - 1)>> \o Split(SubSeq(s, at + 1, Len(s)))

ScaleBody(valid, hasReplicas, replicas) ==
    [Valid |-> valid, HasReplicas |-> hasReplicas, Replicas |-> replicas]

\* Decode reporting no error for a document that does not decode
DecodeScaleRequestLenient(body) ==
    [err |-> FALSE,
     Replicas |-> IF body.Valid /\ body.HasReplicas THEN body.Replicas ELSE 0]

\* Decode refusing a document without a replicas member
DecodeScaleRequestStrict(body) ==
    [err |-> ~body.Valid \/ ~body.HasReplicas,
     Replicas |-> IF body.Valid /\ body.HasReplicas THEN body.Replicas ELSE 0]

\* json.Decoder.Decode into a zero scaleRequest: a member the document
\* lacks keeps its zero value.
DecodeScaleRequest(body) ==
    [err |-> ~body.Valid,
     Replicas |-> IF body.Valid /\ body.HasReplicas THEN body.Replicas ELSE 0]

\* first is the key the range over the map meets first with the name.
handleDeploymentByName(items, r, now, first) ==
    LET path     == TrimPrefix(r.Path, "/api/deployments/")
        segments == Split(path)
        name     == segments[1]
    IN  IF path = "" THEN Response(StatusNotFound, "404 page not found", items)
        ELSE IF r.Method = "GET"
        THEN IF Len(segments) # 1
             THEN Response(StatusNotFound, "404 page not found", items)
             ELSE LET g == Get(items, name, now, first) IN
                  IF g.err = ErrNil THEN Response(StatusOK, g.val, items)
                  ELSE IF g.err = ErrNotFound
                  THEN Response(StatusNotFound, [Error |-> "no such deployment"], items)
                  ELSE Response(StatusInternalServerError,
                                "failed to load deployment detail", items)
        ELSE IF r.Method = "PUT"
        THEN IF Len(segments) # 2 \/ segments[2] # "scale"
             THEN Response(StatusNotFound, "404 page not found", items)
             ELSE LET req == DecodeScaleRequest(r.Body) IN
                  IF req.err
                  THEN Response(StatusBadRequest, "invalid JSON payload", items)
                  ELSE LET sc == Scale(items, name, req.Replicas, now, first) IN
                       IF sc.err = ErrNil THEN Response(StatusOK, sc.val, sc.items)
                       ELSE IF sc.err = ErrInvalidReplicas
                       THEN Response(StatusBadRequest, [Error |-> "invalid replicas"],
                                     sc.items)
                       ELSE IF sc.err = ErrNotFound
                       THEN Response(StatusNotFound, [Error |-> "no such deployment"],
                                     sc.items)
                       ELSE Response(StatusInternalServerError,
                                     "failed to scale deployment", sc.items)
        ELSE Response(StatusMethodNotAllowed, "method not allowed", items)

NoScaleBody == ScaleBody(FALSE, FALSE, 0)

DeployPaths ==
    {"/api/deployments/" \o rest :
        rest \in {"", "frontend", "missing", "frontend/scale", "missing/scale",
                  "frontend/scale/now", "frontend/status", "frontend/"}}

DeployRequests ==
    {HTTPRequest(m, path, NoScaleBody) : m \in {"GET", "DELETE", "PUT"}, path \in DeployPaths}
    \cup {HTTPRequest("PUT", path, b) :
             path \in DeployPaths,
             b \in { ScaleBody(TRUE, FALSE, 0),
                     ScaleBody(TRUE, TRUE, 0),
                     ScaleBody(TRUE, TRUE, 6),
                     ScaleBody(TRUE, TRUE, 0 - 1),
                     ScaleBody(TRUE, TRUE, MaxReplicas + 1) }}

DeploymentRequest ==
    \E r \in DeployRequests, now \in Nows :
      LET name == Split(TrimPrefix(r.Path, "/api/deployments/"))[1] IN
      \E first \in FirstNamed(deployItems, name) :
        LET resp   == handleDeploymentByName(deployItems, r, now, first)
            scaled == r.Method = "PUT" /\ resp.status = StatusOK
        IN
        /\ scaled => SumOver(nScaled) < MaxScales
        /\ deployItems' = resp.items
        /\ nScaled' = [k \in DOMAIN nScaled |->
                          IF scaled /\ deployItems[k].Summary.Name = name
                          THEN nScaled[k] + 1 ELSE nScaled[k]]
        /\ ret' = Call("handleDeploymentByName", name, resp.status, now, ErrNil,
                       [Request |-> r, Body |-> resp.body])
        /\ UNCHANGED <<concVars, storeVars>>

NextDeployHTTP == DeploymentRequest

SpecDeployHTTP == Init /\ [][NextDeployHTTP]_vars

(***************************************************************************)
(* All the stores of one server, one call at a time.  In one behaviour the *)
(* calls go to the resource stores, to the diagnostic store or to the      *)
(* import ledger, the others staying as constructed.                       *)
(***************************************************************************)
ResourcesFresh ==
    /\ nsItems = namespace_NewStore(StartTime)
    /\ deployItems = NewStore(StartTime)

DiagFresh ==
    /\ logRecords = logs_NewStore(StartTime)
    /\ eventRecords = defaultEvents(StartTime)

LedgerFresh == kcItems = kubeconfig_NewStore

NextServer ==
    \/ DiagFresh /\ LedgerFresh /\ NextStores
    \/ ResourcesFresh /\ LedgerFresh /\ (NextDiag \/ LogsList)
    \/ ResourcesFresh /\ DiagFresh /\ (LedgerAdd \/ LedgerList)

SpecServer == Init /\ [][NextServer]_vars

(***************************************************************************)
(* Properties of the deployment store under sequential calls.              *)
(***************************************************************************)
Named(items, name) == {k \in DOMAIN items : items[k].Summary.Name = name}

MinInt(a, b) == IF a < b THEN a ELSE b

ScaleDone == ret.op = "deploy.Scale" /\ ret.err = ErrNil

\* C1: in every reachable state every deployment has 0 <= ready <= desired
\* and 0 <= updated <= desired.
C1_CountsWithinDesired ==
    \A k \in DOMAIN deployItems :
        LET s == deployItems[k].Summary IN
        /\ 0 <= s.ReadyReplicas /\ s.ReadyReplicas <= s.DesiredReplicas
        /\ 0 <= s.UpdatedReplicas /\ s.UpdatedReplicas <= s.DesiredReplicas

\* C1 witness: backend (ready 5, updated 3, desired 6) was scaled down to 4,
\* below its ready count.
C1_Witness ==
    /\ ScaleDone /\ ret.name = "backend" /\ ret.n = 4
    /\ deployItems["prod/backend"].Summary.ReadyReplicas = 4
    /\ deployItems["prod/backend"].Summary.UpdatedReplicas = 3

\* C2: a deployment's revision is its seeded revision plus the number of
\* successful Scale calls made on it; failed Scale calls, Get and List leave
\* it alone.
C2_RevisionCountsScales ==
    \A k \in DOMAIN deployItems :
        deployItems[k].Revision = NewStore(StartTime)[k].Revision + nScaled[k]

\* C2 witness: frontend was scaled twice, the second time to the count it
\* already had, and a failed call followed.
C2_Witness ==
    /\ nScaled["default/frontend"] = 2
    /\ deployItems["default/frontend"].Revision = 9
    /\ deployItems["default/frontend"].Summary.DesiredReplicas = 4
    /\ ret.op = "deploy.Scale" /\ ret.err # ErrNil

\* C3: a successful Scale(name, n, now) sets desired to n, ready and updated
\* to the smaller of their old value and n, lastUpdate to now, and returns a
\* detail with these values and the revision raised by one.
C3_ScaleEffect ==
    [][ (ret'.op = "deploy.Scale" /\ ret'.err = ErrNil) =>
          \E k \in Named(deployItems, ret'.name) :
            LET pre  == deployItems[k]
                post == deployItems'[k]
                out  == ret'.val
            IN  /\ post.Summary.DesiredReplicas = ret'.n
                /\ post.Summary.ReadyReplicas = MinInt(pre.Summary.ReadyReplicas, ret'.n)
                /\ post.Summary.UpdatedReplicas = MinInt(pre.Summary.UpdatedReplicas, ret'.n)
                /\ post.LastUpdate = ret'.now
                /\ out.Summary.Name = ret'.name
                /\ out.Summary.DesiredReplicas = post.Summary.DesiredReplicas
                /\ out.Summary.ReadyReplicas = post.Summary.ReadyReplicas
                /\ out.Summary.UpdatedReplicas = post.Summary.UpdatedReplicas
                /\ out.LastUpdated = FormatRFC3339(ret'.now)
                /\ out.Revision = pre.Revision + 1
                /\ out.Revision = post.Revision
      ]_vars

\* C3 witness: backend scaled to 0 at the later instant; the detail reports
\* the clamped counts and the instant in its zone.
C3_Witness ==
    /\ ScaleDone /\ ret.name = "backend" /\ ret.n = 0
    /\ ret.val.Summary.ReadyReplicas = 0 /\ ret.val.Summary.UpdatedReplicas = 0
    /\ ret.val.Revision = 22
    /\ ret.val.LastUpdated = "2024-07-12T20:01:00+08:00"

\* C4: Scale with n < 0 or n > 200 fails with the invalid-replica-count error
\* and changes no record, whether or not the deployment exists.
C4_InvalidReplicasRejected ==
    [][ (ret'.op = "deploy.Scale" /\ (ret'.n < 0 \/ ret'.n > 200)) =>
          /\ ret'.err = ErrInvalidReplicas
          /\ deployItems' = deployItems
          /\ \A f \in FirstNamed(deployItems', ret'.name) :
               \A g \in FirstNamed(deployItems, ret'.name) :
                 Get(deployItems', ret'.name, ret'.now, f)
                     = Get(deployItems, ret'.name, ret'.now, g)
      ]_vars

\* C4 witness: after a successful scale, a Scale of an unknown deployment
\* to 201 replicas was refused for its count.
C4_Witness ==
    /\ ret.op = "deploy.Scale" /\ ret.name = "missing" /\ ret.n = 201
    /\ ret.err = ErrInvalidReplicas
    /\ SumOver(nScaled) > 0

\* C5: Scale with 0 <= n <= 200 of a name no deployment has fails with the
\* not-found error and changes no record.
C5_ScaleMissingNotFound ==
    [][ (/\ ret'.op = "deploy.Scale"
         /\ 0 <= ret'.n /\ ret'.n <= 200
         /\ Named(deployItems, ret'.name) = {}) =>
          /\ ret'.err = ErrNotFound
          /\ deployItems' = deployItems
      ]_vars

\* C5 witness: Scale("missing", 200) answered not found.
C5_Witness ==
    /\ ret.op = "deploy.Scale" /\ ret.name = "missing" /\ ret.n = 200
    /\ ret.err = ErrNotFound

\* The status the counts stand for.
StatusOf(ready, desired) ==
    IF ready = desired THEN "Healthy" ELSE IF ready = 0 THEN "Down" ELSE "Updating"

ViewStatusDerived(v) == v.Status = StatusOf(v.ReadyReplicas, v.DesiredReplicas)

\* C6: the status of every deployment view (List, Get, the detail Scale
\* returns) is Healthy when ready = desired, else Down when ready = 0, else
\* Updating; the stored record's status field is never written.
C6_StatusDerivedFromCounts ==
    /\ \A k \in DOMAIN deployItems : deployItems[k].Summary.Status = ""
    /\ ret.op = "deploy.List" =>
          \A i \in 1..Len(ret.val) : ViewStatusDerived(ret.val[i])
    /\ (ret.op \in {"deploy.Get", "deploy.Scale"} /\ ret.err = ErrNil) =>
          /\ ViewStatusDerived(ret.val.Summary)
          /\ \A k \in Named(deployItems, ret.name) :
               /\ ret.val.Summary.ReadyReplicas = deployItems[k].Summary.ReadyReplicas
               /\ ret.val.Summary.DesiredReplicas = deployItems[k].Summary.DesiredReplicas

\* C6 witness: a List after a scale to zero shows a Healthy deployment with
\* zero replicas beside a Down one.
C6_Witness ==
    /\ ret.op = "deploy.List"
    /\ \E i \in 1..Len(ret.val) :
         /\ ret.val[i].ReadyReplicas = 0 /\ ret.val[i].DesiredReplicas = 0
         /\ ret.val[i].Status = "Healthy"
    /\ \E i \in 1..Len(ret.val) :
         /\ ret.val[i].ReadyReplicas = 0 /\ ret.val[i].DesiredReplicas > 0
         /\ ret.val[i].Status = "Down"

(***************************************************************************)
(* Properties of the deployment store under concurrent calls.              *)
(***************************************************************************)
HasRead(t) == th[t].pc \in {"runlock", "done"}

CountsOk(v) ==
    /\ v.ReadyReplicas <= v.DesiredReplicas
    /\ v.UpdatedReplicas <= v.DesiredReplicas

\* C7: what a Get or List running beside a Scale returns is the view of a
\* whole record, as the store held it before or after a Scale: never the new
\* desired count without the matching ready, updated, lastUpdate and
\* revision, never ready or updated above desired.
C7_ReadersSeeWholeRecords ==
    \A t \in Threads :
        /\ (HasRead(t) /\ th[t].op = "Get" /\ th[t].err = ErrNil) =>
              /\ \E c \in committed[th[t].key] : th[t].out = toDetail(c, th[t].now)
              /\ CountsOk(th[t].out.Summary)
        /\ (HasRead(t) /\ th[t].op = "List") =>
              \A i \in 1..Len(th[t].out) :
                 /\ \E k \in DOMAIN committed : \E c \in committed[k] :
                       th[t].out[i] = decorateSummary(c.Summary, c.CreatedAt, th[t].now)
                 /\ CountsOk(th[t].out[i])

\* C7 witness: a Get has read the record a Scale wrote while another Scale
\* of the same deployment waits for the lock the Get still holds.
C7_Witness ==
    \E t, u, v \in Threads :
        /\ th[t].op = "Get" /\ th[t].pc = "runlock" /\ th[t].err = ErrNil
        /\ th[u].op = "Scale" /\ th[u].pc = "done" /\ th[u].err = ErrNil
        /\ th[t].out.Revision = th[u].out.Revision
        /\ th[t].out.Summary.DesiredReplicas = th[u].n
        /\ th[v].op = "Scale" /\ th[v].pc = "lock" /\ th[v].name = th[t].name

\* The goroutines whose Scale of the record under key k succeeded.
Scalers(k) ==
    {t \in Threads : /\ th[t].op = "Scale" /\ th[t].pc = "done" /\ th[t].err = ErrNil
                     /\ th[t].name = deployItems[k].Summary.Name}

\* rec after the Scale calls of the goroutines in order, one after another;
\* each call returned the detail of the record it left.
RECURSIVE AppliedInOrder(_, _, _)
AppliedInOrder(rec, order, final) ==
    IF order = <<>> THEN rec = final
    ELSE LET t    == Head(order)
             next == ScaleRecord(rec, th[t].n, th[t].now)
         IN  /\ th[t].out = toDetail(next, th[t].now)
             /\ AppliedInOrder(next, Tail(order), final)

\* C8: when k Scale calls of one deployment ran concurrently and succeeded,
\* the revision is the seeded one plus k, the revisions returned are the k
\* next ones, each once, and the record and the details returned are those
\* of the calls run one after another in some order.
C8_ScalesLinearizable ==
    (\A t \in Threads : th[t].pc = "done") =>
        \A k \in DOMAIN deployItems :
            LET seed == NewStore(StartTime)[k]
                S    == Scalers(k)
            IN  /\ deployItems[k].Revision = seed.Revision + Cardinality(S)
                /\ {th[t].out.Revision : t \in S}
                      = (seed.Revision + 1)..(seed.Revision + Cardinality(S))
                /\ \E order \in MapOrders(S) : AppliedInOrder(seed, order, deployItems[k])

\* C8 witness: every goroutine scaled backend (to 2 and to 7) and has
\* returned; the one that returned the last revision asked for 7 and left
\* the ready count at 2.
C8_Witness ==
    /\ \A t \in Threads : th[t].pc = "done" /\ th[t].op = "Scale" /\ th[t].err = ErrNil
                          /\ th[t].name = "backend"
    /\ \E t \in Threads : th[t].n = 2
    /\ deployItems["prod/backend"].Revision = 21 + NumThreads
    /\ deployItems["prod/backend"].Summary.DesiredReplicas = 7
    /\ deployItems["prod/backend"].Summary.ReadyReplicas = 2

(***************************************************************************)
(* Properties of List and Get of the five stores.                          *)
(***************************************************************************)
\* The identity of a record or view: its namespace ("" for the
\* cluster-scoped kinds) and its name.
Ident(namespace, name) == <<namespace, name>>

\* a comes before b, byte-wise by namespace and then name.
IdentBefore(a, b) ==
    \/ StrLess(a[1], b[1])
    \/ a[1] = b[1] /\ StrLess(a[2], b[2])

\* ids, a sequence of identities, has each member of stored once and nothing
\* else, in ascending order.
ExactlySorted(ids, stored) ==
    /\ Len(ids) = Cardinality(stored)
    /\ \A id \in stored : \E i \in 1..Len(ids) : ids[i] = id
    /\ \A i \in 1..(Len(ids) - 1) : IdentBefore(ids[i], ids[i + 1])

Namespaced(views) == [i \in 1..Len(views) |-> Ident(views[i].Namespace, views[i].Name)]

ClusterScoped(views) == [i \in 1..Len(views) |-> Ident("", views[i].Name)]

StoredNamespaced(items) ==
    {Ident(items[k].Summary.Namespace, items[k].Summary.Name) : k \in DOMAIN items}

StoredClusterScoped(items) == {Ident("", items[k].Name) : k \in DOMAIN items}

\* C9: what List returns, in every store and state and for every now, has
\* one view per stored record, none left out and none twice, in ascending
\* byte-wise order of (namespace, name) for pods, deployments and services
\* and of name for namespaces and nodes.
C9_ListCompleteAndSorted ==
    /\ ret.op = "namespace.List" =>
          ExactlySorted(ClusterScoped(ret.val), StoredClusterScoped(nsItems))
    /\ ret.op = "node.List" =>
          ExactlySorted(ClusterScoped(ret.val), StoredClusterScoped(nodeItems))
    /\ ret.op = "pod.List" =>
          ExactlySorted(Namespaced(ret.val), StoredNamespaced(podItems))
    /\ ret.op = "deploy.List" =>
          ExactlySorted(Namespaced(ret.val), StoredNamespaced(deployItems))
    /\ ret.op = "service.List" =>
          ExactlySorted(Namespaced(ret.val), StoredNamespaced(svcItems))

\* C9 witness: the namespace list after kube-public was created and default
\* deleted: the new name first, before kube-system.
C9_Witness ==
    /\ ret.op = "namespace.List"
    /\ Len(ret.val) = 3
    /\ ret.val[1].Name = "kube-public" /\ ret.val[2].Name = "kube-system"
    /\ ret.val[3].Name = "monitoring"

\* The records of a store with the given name.
NamedSummary(items, name) == {k \in DOMAIN items : items[k].Summary.Name = name}

\* Get(name, now) answered with the view of the record of that name, or with
\* notFound when the store has none.
GetByNameOk(hits, view, zero, notFound) ==
    /\ Cardinality(hits) <= 1
    /\ hits = {} => ret.err = notFound /\ ret.val = zero
    /\ hits # {} => ret.err = ErrNil /\ \A k \in hits : ret.val = view[k]

\* C10 as stated: Get answers with a record exactly when its argument is the
\* key of one, the key being key(namespace, name) for deployments, pods and
\* services and the name for nodes.
C10_GetByKeyAsStated ==
    /\ ret.op = "deploy.Get" =>
          (ret.err = ErrNil <=> ret.name \in DOMAIN deployItems)
    /\ ret.op = "pod.Get" =>
          (ret.err = ErrNil <=> ret.name \in DOMAIN podItems)
    /\ ret.op = "service.Get" =>
          (ret.err = ErrNil <=>
              \E k \in DOMAIN svcItems :
                  ret.name = key(svcItems[k].Summary.Namespace, svcItems[k].Summary.Name))
    /\ ret.op = "node.Get" =>
          (ret.err = ErrNil <=> ret.name \in DOMAIN nodeItems)

\* C10, amended: Get takes a name and no namespace.  For deployments, pods,
\* services and nodes alike it answers with the view, at now, of the record
\* whose name is exactly the argument, and with the kind's not-found error
\* and an empty view when no record has that name; a key such as
\* default/frontend is no name.  No store holds two records of one name, so
\* the order in which the map is visited makes no difference.
C10_GetByName ==
    /\ ret.op = "deploy.Get" =>
          GetByNameOk(NamedSummary(deployItems, ret.name),
                      [k \in DOMAIN deployItems |-> toDetail(deployItems[k], ret.now)],
                      ZeroDetail, ErrNotFound)
    /\ ret.op = "pod.Get" =>
          GetByNameOk(NamedSummary(podItems, ret.name),
                      [k \in DOMAIN podItems |-> pod_Get(podItems, ret.name, ret.now, k).val],
                      pod_ZeroDetail, pod_ErrNotFound)
    /\ ret.op = "service.Get" =>
          GetByNameOk(NamedSummary(svcItems, ret.name),
                      [k \in DOMAIN svcItems |-> service_Get(svcItems, k, ret.now).val],
                      service_ZeroDetail, service_ErrNotFound)
    /\ ret.op = "node.Get" =>
          GetByNameOk({k \in DOMAIN nodeItems : nodeItems[k].Name = ret.name},
                      [k \in DOMAIN nodeItems |-> node_toDetail(nodeItems[k], ret.now)],
                      node_ZeroDetail, node_ErrNotFound)

\* C10 witness: after backend was scaled to 4, Get("backend") shows the
\* record stored under prod/backend as the scale left it.
C10_Witness ==
    /\ ret.op = "deploy.Get" /\ ret.name = "backend" /\ ret.err = ErrNil
    /\ "backend" \notin DOMAIN deployItems
    /\ ret.val.Summary.Namespace = "prod"
    /\ ret.val.Summary.DesiredReplicas = 4
    /\ ret.val.Revision = deployItems["prod/backend"].Revision
    /\ ret.val.Revision > 21

(***************************************************************************)
(* Properties of the namespace store.                                      *)
(***************************************************************************)
\* A DNS label: 1 to 63 bytes, lower-case letters, digits and hyphens only,
\* no hyphen first or last.
DnsLabel(s) ==
    /\ 1 <= Len(s) /\ Len(s) <= 63
    /\ \A i \in 1..Len(s) : CharAt(s, i) \in LowerAlnum \/ CharAt(s, i) = "-"
    /\ CharAt(s, 1) # "-"
    /\ CharAt(s, Len(s)) # "-"

CreateCalled == ret'.op = "namespace.Create"

\* C11 as stated: Create refuses every supplied name that is no DNS label,
\* a name with leading or trailing white space included, and changes
\* nothing; a DNS label not yet present is taken.
C11_InvalidNameAsStated ==
    [][ CreateCalled =>
          /\ ~DnsLabel(ret'.name) =>
                ret'.err = namespace_ErrInvalidName /\ nsItems' = nsItems
          /\ (DnsLabel(ret'.name) /\ ret'.name \notin DOMAIN nsItems) =>
                ret'.err = ErrNil /\ ret'.name \in DOMAIN nsItems'
      ]_vars

\* C11, amended: Create strips the white space around the supplied name
\* first.  It fails with the invalid-name error and leaves the store
\* unchanged whenever the stripped name is no DNS label (empty or blank,
\* upper case or underscore, a blank inside, a hyphen first or last, longer
\* than 63); a name whose stripped form is a DNS label not yet present
\* succeeds and is stored under the stripped form, surrounding white space
\* or not.
C11_InvalidNameRejected ==
    [][ CreateCalled =>
          \A clean \in {TrimSpace(ret'.name)} :
          /\ ~DnsLabel(clean) =>
                ret'.err = namespace_ErrInvalidName /\ nsItems' = nsItems
          /\ (DnsLabel(clean) /\ clean \notin DOMAIN nsItems) =>
                /\ ret'.err = ErrNil
                /\ DOMAIN nsItems' = DOMAIN nsItems \cup {clean}
                /\ nsItems'[clean].Name = clean
      ]_vars

\* C11 witness: with the 63-byte name and staging (sent with a tab before
\* and a newline after) in the store, the 64-byte name was refused.
C11_Witness ==
    /\ ret.op = "namespace.Create" /\ ret.name = Name64
    /\ ret.err = namespace_ErrInvalidName
    /\ Name63 \in DOMAIN nsItems /\ Len(Name63) = 63
    /\ "staging" \in DOMAIN nsItems
    /\ nsItems["staging"].Labels["kubernetes.io/metadata.name"] = "custom"

\* C12: Create of a name the store already holds fails with the
\* already-exists error; the record it holds keeps its creation instant and
\* labels, and the store keeps its number of records.
C12_CreateExistingRejected ==
    [][ CreateCalled =>
          \A clean \in {TrimSpace(ret'.name)} :
             clean \in DOMAIN nsItems =>
                /\ ret'.err = namespace_ErrExists
                /\ DOMAIN nsItems' = DOMAIN nsItems
                /\ nsItems'[clean] = nsItems[clean]
                /\ Cardinality(DOMAIN nsItems') = Cardinality(DOMAIN nsItems)
      ]_vars

\* C12 witness: staging, created without labels at the first instant, was
\* sent again a minute later with labels and white space around it; the
\* record is as it was.
C12_Witness ==
    /\ ret.op = "namespace.Create" /\ ret.name = "\tstaging\n"
    /\ ret.err = namespace_ErrExists
    /\ ret.now # StartTime /\ "team" \in DOMAIN ret.labels
    /\ "staging" \in DOMAIN nsItems
    /\ nsItems["staging"].CreatedAt = StartTime
    /\ "team" \notin DOMAIN nsItems["staging"].Labels

CreateDone == CreateCalled /\ ret'.err = ErrNil

\* The labels a record of the given name gets: the caller's value where the
\* caller sent the key, else the default of the two managed keys.
ExpectedLabels(name, sent) ==
    [k \in DOMAIN sent \cup {"kubernetes.io/metadata.name", "app.kubernetes.io/managed-by"} |->
        IF k \in DOMAIN sent THEN sent[k]
        ELSE IF k = "kubernetes.io/metadata.name" THEN name ELSE "mock-dashboard"]

\* The store, read at now in any order of the map, shows the name with the
\* labels and age zero.
ReadShows(items, now, name, labels) ==
    \A order \in MapOrders(DOMAIN items) :
        \E v \in Elems(namespace_List(items, now, order)) :
            v.Name = name /\ v.Labels = labels /\ v.Age = "0m0s"

\* What a successful Create of (name, now, sent) must have stored and
\* returned, name being the name the record goes by.
CreatedAs(name) ==
    /\ name \in DOMAIN nsItems'
    /\ nsItems'[name].Name = name
    /\ nsItems'[name].CreatedAt.sec = ret'.now.sec
    /\ nsItems'[name].Labels = ExpectedLabels(name, ret'.labels)
    /\ ret'.val.Name = name
    /\ ret'.val.Labels = ExpectedLabels(name, ret'.labels)
    /\ ret'.val.Age = "0m0s"
    /\ ReadShows(nsItems', ret'.now, name, ExpectedLabels(name, ret'.labels))

\* C13 as stated: the record, the view and a read show the name as supplied.
C13_CreateStoresAsStated ==
    [][ CreateDone => CreatedAs(ret'.name) ]_vars

\* C13, amended: a successful Create(name, now, labels) stores, under the
\* name stripped of surrounding white space, a record whose creation instant
\* is now and whose labels are the two default labels
\* (kubernetes.io/metadata.name = the stripped name,
\* app.kubernetes.io/managed-by = mock-dashboard) overlaid with the caller's,
\* the caller's value winning on a shared key; the view returned and a read
\* at the same now show the stripped name, those labels and age zero.
C13_CreateStores ==
    [][ CreateDone => \A clean \in {TrimSpace(ret'.name)} : CreatedAs(clean) ]_vars

\* C13 witness: staging was created, sent with white space around it, in
\* the +08:00 zone, with a label of its own and one that replaces a default.
C13_Witness ==
    /\ ret.op = "namespace.Create" /\ ret.err = ErrNil /\ ret.name = "\tstaging\n"
    /\ ret.now.off # 0
    /\ ret.val.Name = "staging"
    /\ ret.val.Labels["kubernetes.io/metadata.name"] = "custom"
    /\ ret.val.Labels["team"] = "platform"
    /\ ret.val.Labels["app.kubernetes.io/managed-by"] = "mock-dashboard"
    /\ ret.val.CreatedAt = "2024-07-12T12:01:00Z"
    /\ nsItems["staging"].CreatedAt.off = 0

DeleteCalled == ret'.op = "namespace.Delete"

\* What Delete must have done and answered, name being the name it looked
\* for.
DeletedAs(name) ==
    /\ name \in DOMAIN nsItems =>
          /\ ret'.val.Deleted
          /\ DOMAIN nsItems' = DOMAIN nsItems \ {name}
          /\ \A k \in DOMAIN nsItems' : nsItems'[k] = nsItems[k]
    /\ name \notin DOMAIN nsItems =>
          /\ ~ret'.val.Deleted
          /\ nsItems' = nsItems

\* deleted again: the call before was a successful Delete of the name.
Redeleted(name, before) ==
    (ret.op = "namespace.Delete" /\ ret.val.Deleted /\ before = name)
        => ~ret'.val.Deleted

\* C14 as stated: Delete looks for a record with the name as supplied.
C14_DeleteAsStated ==
    [][ DeleteCalled => DeletedAs(ret'.name) /\ Redeleted(ret'.name, ret.name) ]_vars

\* C14, amended: Delete(name) strips the white space around name; it
\* returns true exactly when a record with the stripped name was present,
\* and then removes that record and no other; when the stripped name is
\* absent it returns false and leaves the store unchanged, so a Delete
\* repeated right after a successful one returns false.
C14_Delete ==
    [][ DeleteCalled =>
          \A clean \in {TrimSpace(ret'.name)} :
              DeletedAs(clean) /\ Redeleted(clean, TrimSpace(ret.name))
      ]_vars

\* C14 witness: staging was deleted by a name with blanks around it; the
\* 63-byte namespace created beside it is still there.
C14_Witness ==
    /\ ret.op = "namespace.Delete" /\ ret.name = " staging " /\ ret.val.Deleted
    /\ "staging" \notin DOMAIN nsItems
    /\ Name63 \in DOMAIN nsItems
    /\ Cardinality(DOMAIN nsItems) = 4

(***************************************************************************)
(* Properties of the namespace store under concurrent calls.               *)
(***************************************************************************)
NsCallers(op, name) == {t \in Threads : nsTh[t].op = op /\ nsTh[t].clean = name}

NsAllDone(S) == \A t \in S : nsTh[t].pc = "done"

\* C15: of the concurrent Create calls of one valid name the store did not
\* hold, with no Delete of it, one succeeds and every other fails with
\* already-exists; of the concurrent Delete calls of one name the store
\* held, with no Create of it, one returns true; the store never holds a
\* name twice.
C15_OneCreateOneDeleteWins ==
    /\ \A k \in DOMAIN nsItems : nsItems[k].Name = k
    /\ \A name \in {nsTh[t].clean : t \in Threads} :
         LET creators == NsCallers("Create", name)
             deleters == NsCallers("Delete", name)
             seeded   == name \in DOMAIN namespace_NewStore(StartTime)
         IN  /\ (/\ creators # {} /\ deleters = {} /\ ~seeded /\ DnsLabel(name)
                 /\ NsAllDone(creators)) =>
                    /\ Cardinality({t \in creators : nsTh[t].err = ErrNil}) = 1
                    /\ \A t \in creators :
                          nsTh[t].err \in {ErrNil, namespace_ErrExists}
                    /\ name \in DOMAIN nsItems
             /\ (/\ deleters # {} /\ creators = {} /\ seeded
                 /\ NsAllDone(deleters)) =>
                    /\ Cardinality({t \in deleters : nsTh[t].ok}) = 1
                    /\ name \notin DOMAIN nsItems

\* C15 witness: every goroutine created staging, one of them with blanks
\* around the name; the one that won sent the label.
C15_Witness ==
    /\ \A t \in Threads : nsTh[t].op = "Create" /\ nsTh[t].clean = "staging"
                          /\ nsTh[t].pc = "done"
    /\ \E t \in Threads : nsTh[t].name = " staging " /\ nsTh[t].err = ErrNil
    /\ \E t \in Threads : nsTh[t].name = "staging" /\ nsTh[t].err = namespace_ErrExists
    /\ nsItems["staging"].Labels["team"] = "platform"

(***************************************************************************)
(* Termination of the store operations.                                    *)
(***************************************************************************)
\* The stores whose mutex goroutine t holds.
Held(t) == {s \in StoreNames : locks[s].w = t \/ t \in locks[s].r}

\* C16: under fair scheduling every invoked store operation returns; an
\* operation that has returned holds no store lock, whichever path it took;
\* no operation asks for a store lock it holds.
C16_EveryOperationReturns ==
    /\ [](\A t \in Callers : calls[t].pc = "done" => Held(t) = {})
    /\ [](\A t \in Callers : Instr(t)[1] \in {"Lock", "RLock"} => Instr(t)[2] \notin Held(t))
    /\ \A t \in Callers : (calls[t].pc = "run") ~> (calls[t].pc = "done")

\* C16 witness: DescribeFilters is in its second read of the logs store
\* while AppendLog is blocked in Lock behind it.
C16_Witness ==
    \E t, u \in Callers :
        /\ calls[t].op = "logs.DescribeFilters" /\ calls[t].ip = 4
        /\ calls[u].op = "logs.AppendLog" /\ u \in locks["logs"].p
        /\ t \in locks["logs"].r

(***************************************************************************)
(* Properties of the age.                                                  *)
(***************************************************************************)
UnitSeconds(u) ==
    CASE u = "d" -> 24 * Hour [] u = "h" -> Hour [] u = "m" -> Minute [] u = "s" -> Second

\* The duration an age string of two units states.
AgeSeconds(age) ==
    LET i == CHOOSE j \in 1..Len(age) :
                 /\ CharAt(age, j) \notin Digits
                 /\ \A k \in 1..(j - 1) : CharAt(age, k) \in Digits
    IN  Number(SubSeq(age, 1, i - 1)) * UnitSeconds(CharAt(age, i))
        + Number(SubSeq(age, i + 1, Len(age) - 1)) * UnitSeconds(CharAt(age, Len(age)))

AgeRead == SubSeq(ret.op, Len(ret.op) - 3, Len(ret.op)) = ".Age"

\* C17: a record read at now1 and at now2 >= now1 shows at now1 an age not
\* greater than at now2; no age is negative; an instant before the creation
\* of the record shows the zero age.
C17_AgeMonotone ==
    AgeRead =>
        /\ 0 <= AgeSeconds(ret.val.Age1)
        /\ AgeSeconds(ret.val.Age1) <= AgeSeconds(ret.val.Age2)
        /\ ret.now.sec < ret.val.Created.sec => ret.val.Age1 = "0m0s"
        /\ ret.val.Now2.sec < ret.val.Created.sec => ret.val.Age2 = "0m0s"

\* C17 witness: a pod read an hour before its creation and a day and a
\* minute after it.
C17_Witness ==
    /\ ret.op = "pod.Age"
    /\ ret.now.sec = ret.val.Created.sec - Hour
    /\ ret.val.Age1 = "0m0s"
    /\ ret.val.Age2 = "1d0h"

\* The age string as stated: days and hours from a day on, hours and
\* minutes from an hour on, minutes and seconds below.
StatedAge(d0) ==
    LET d == IF d0 < 0 THEN 0 ELSE d0
        D == d \div (24 * Hour)
        H == (d % (24 * Hour)) \div Hour
        M == (d % Hour) \div Minute
        S == d % Minute
    IN  IF d >= 24 * Hour THEN ToString(D) \o "d" \o ToString(H) \o "h"
        ELSE IF d >= Hour THEN ToString(H) \o "h" \o ToString(M) \o "m"
        ELSE ToString(M) \o "m" \o ToString(S) \o "s"

\* C18: the age string of a duration of whole seconds is days and hours
\* from one day on, else hours and minutes from one hour on, else minutes
\* and seconds, a negative duration counting as zero; the second unit is
\* written when it is zero: 24 hours is 1d0h, zero is 0m0s, 36 hours is
\* 1d12h.
C18_AgeString ==
    ret.op = "formatAge" =>
        /\ ret.val.Age = StatedAge(ret.n)
        /\ ret.n = 24 * Hour => ret.val.Age = "1d0h"
        /\ ret.n = 0 => ret.val.Age = "0m0s"
        /\ ret.n = 36 * Hour => ret.val.Age = "1d12h"

\* C18 witness: formatAge applied to 36 hours.
C18_Witness == ret.op = "formatAge" /\ ret.n = 36 * Hour /\ ret.val.Age = "1d12h"

(***************************************************************************)
(* Properties of ListLogs.                                                 *)
(***************************************************************************)
ListLogsCalled == ret.op = "logs.ListLogs"

\* a and b are the same but for the case of their letters.
EqualFold(a, b) == ToLower(a) = ToLower(b)

\* x, an entry or a record, has the value the filter field asks for.
FieldMatches(value, field) == field # "" => EqualFold(value, field)

\* C19 as stated: every entry ListLogs returns equals, but for case, every
\* filter field that is not empty.
C19_FiltersAsStated ==
    ListLogsCalled =>
        \A e \in Elems(ret.val.Entries) :
            /\ FieldMatches(e.Namespace, ret.val.Filter.Namespace)
            /\ FieldMatches(e.Pod, ret.val.Filter.Pod)
            /\ FieldMatches(e.Level, ret.val.Filter.Level)

\* C19: every entry ListLogs returns equals, but for case, every filter
\* field that is not empty once the white space around it is stripped; a
\* level filter selects the same entries in lower and in upper case.
C19_Filters ==
    ListLogsCalled =>
        /\ \A e \in Elems(ret.val.Entries) :
            /\ FieldMatches(e.Namespace, TrimSpace(ret.val.Filter.Namespace))
            /\ FieldMatches(e.Pod, TrimSpace(ret.val.Filter.Pod))
            /\ FieldMatches(e.Level, TrimSpace(ret.val.Filter.Level))
        /\ ret.val.Entries =
              ListLogs(logRecords, ret.now, [ret.val.Filter EXCEPT !.Level = ToLower(@)])
        /\ ret.val.Entries =
              ListLogs(logRecords, ret.now, [ret.val.Filter EXCEPT !.Level = ToUpper(@)])

\* C19 witness: the filter pod "API-1", level " Error" returns the appended
\* entry of pod api-1 and level error.
C19_Witness ==
    /\ ListLogsCalled
    /\ ret.val.Filter = LogFilter("", "API-1", " Error", 0 - 1)
    /\ Len(ret.val.Entries) = 1
    /\ ret.val.Entries[1].Pod = "api-1" /\ ret.val.Entries[1].Level = LevelError

Reverse(seq) == [i \in 1..Len(seq) |-> seq[Len(seq) + 1 - i]]

Take(n, seq) == SubSeq(seq, 1, IF n < Len(seq) THEN n ELSE Len(seq))

\* What tells one entry from another.
EntryIdents(seq) == [i \in 1..Len(seq) |-> <<seq[i].Namespace, seq[i].Pod, seq[i].Message>>]

\* The internal sequence as stated: the appended entries, last call first,
\* then the seed entries.
StatedSequence == Reverse(logCalls) \o defaultLogs(StartTime)

StatedLimit(limit) == IF 1 <= limit /\ limit <= 200 THEN limit ELSE 50

Matching(x, filter) ==
    /\ FieldMatches(x.Namespace, TrimSpace(filter.Namespace))
    /\ FieldMatches(x.Pod, TrimSpace(filter.Pod))
    /\ FieldMatches(x.Level, TrimSpace(filter.Level))

\* C20: ListLogs returns the first L entries of the internal sequence that
\* match the filter, in the order of the sequence, L being the limit when
\* it is in 1..200 and 50 otherwise; the internal sequence is the appended
\* entries in reverse order of their AppendLog calls, then the seed entries.
C20_FirstMatchesInOrder ==
    ListLogsCalled =>
        \A filter \in {ret.val.Filter} :
            EntryIdents(ret.val.Entries) =
                Take(StatedLimit(filter.Limit),
                     EntryIdents(SelectSeq(StatedSequence, LAMBDA x : Matching(x, filter))))

\* C20 witness: the store holds more than 50 records, the limit 201 is sent
\* and 50 entries come back, the entry of the last AppendLog call first.
C20_Witness ==
    /\ ListLogsCalled
    /\ ret.val.Filter.Limit = MaxLimit + 1
    /\ Len(logRecords) > DefaultLimit
    /\ Len(ret.val.Entries) = DefaultLimit
    /\ ret.val.Entries[1].Message = logCalls[Len(logCalls)].Message

\* The instant the timestamp of an entry states.
InstantOf(e) == ParseRFC3339(e.Timestamp).sec

\* C21: the entries of every ListLogs result are in non-increasing order of
\* their creation instants, newest first, for the seeded store and after
\* any AppendLog calls.
C21_SortedByRecency ==
    ListLogsCalled =>
        \A i \in 1..(Len(ret.val.Entries) - 1) :
            InstantOf(ret.val.Entries[i]) >= InstantOf(ret.val.Entries[i + 1])

\* C24: every log record of the store has a level among INFO, WARN and
\* ERROR, the levels UniqueLevels offers, whatever levels AppendLog was
\* called with.
C24_LevelsClosed ==
    \A i \in 1..Len(logRecords) :
        /\ logRecords[i].Level \in {"INFO", "WARN", "ERROR"}
        /\ logRecords[i].Level \in Elems(UniqueLevels)

(***************************************************************************)
(* Properties of the events and of the projections.                        *)
(***************************************************************************)
\* How many times x occurs in seq.
Occurrences(seq, x) == Cardinality({i \in 1..Len(seq) : seq[i] = x})

\* C22: ListEvents returns every stored event exactly once, in
\* non-increasing order of the instants of occurrence, for the seeded store
\* and after any AppendEvent calls, whatever the zones of their timestamps.
C22_EventsNewestFirst ==
    ret.op = "logs.ListEvents" =>
        \A events \in {ret.val.Events} :
            /\ Len(events) = Len(eventRecords)
            /\ \A i \in 1..Len(eventRecords) :
                  Occurrences(events, toEvent(eventRecords[i]))
                      = Occurrences(eventRecords, eventRecords[i])
            /\ \A i \in 1..(Len(events) - 1) : InstantOf(events[i]) >= InstantOf(events[i + 1])

StrictlyAscending(seq) == \A i \in 1..(Len(seq) - 1) : StrLess(seq[i], seq[i + 1])

\* C23: UniqueNamespaces returns the namespaces of the stored logs and
\* events, UniquePods the pods of the stored logs, each ascending and
\* without duplicates; UniqueLevels returns INFO, WARN, ERROR whatever the
\* store holds; DescribeFilters returns the three under namespaces, pods
\* and levels.
C23_Projections ==
    LET namespaces == {logRecords[i].Namespace : i \in 1..Len(logRecords)}
                      \cup {eventRecords[i].Namespace : i \in 1..Len(eventRecords)}
        pods       == {logRecords[i].Pod : i \in 1..Len(logRecords)}
        Exactly(seq, S) == Elems(seq) = S /\ StrictlyAscending(seq)
    IN  /\ ret.op = "logs.UniqueNamespaces" => Exactly(ret.val.Names, namespaces)
        /\ ret.op = "logs.UniquePods" => Exactly(ret.val.Names, pods)
        /\ ret.op = "logs.UniqueLevels" => ret.val.Names = <<"INFO", "WARN", "ERROR">>
        /\ ret.op = "logs.DescribeFilters" =>
              /\ DOMAIN ret.val = {"namespaces", "pods", "levels"}
              /\ Exactly(ret.val.namespaces, namespaces)
              /\ Exactly(ret.val.pods, pods)
              /\ ret.val.levels = <<"INFO", "WARN", "ERROR">>

\* C23 witness: DescribeFilters lists a namespace that only an appended
\* event has and a pod that only an appended log has.
C23_Witness ==
    /\ ret.op = "logs.DescribeFilters"
    /\ "staging" \in Elems(ret.val.namespaces)
    /\ \A i \in 1..Len(logRecords) : logRecords[i].Namespace # "staging"
    /\ "API-1" \in Elems(ret.val.pods)

(***************************************************************************)
(* Properties of the import ledger.                                        *)
(***************************************************************************)
\* C25: after any sequence of Add calls List returns exactly the added
\* summaries in reverse order of the calls, whatever their ImportedAt, as
\* many as there were calls, an equal summary added twice being two
\* entries; writing to a slice List returned changes nothing of that.
C25_LedgerNewestFirst ==
    LET listed == kubeconfig_List(kcItems).items
    IN  /\ listed = Reverse(kcAdds)
        /\ Len(listed) = Len(kcAdds)
        /\ ret.op = "kubeconfig.List" => ret.val.Items = Reverse(kcAdds)

\* C25 witness: three summaries were added, the first two equal and the
\* third stating an earlier import, and the caller has written to the slice
\* of three that List gave it.
C25_Witness ==
    /\ ret.op = "caller.Write"
    /\ Len(kcAdds) = 3
    /\ kcAdds[1] = kcAdds[2]
    /\ kcAdds[3].ImportedAt.sec < kcAdds[2].ImportedAt.sec
    /\ Len(kcView.items) = 3
    /\ kcView.items # kcItems

\* C26: an import request with a wrong method, an unreadable form, no file
\* part, or a document that does not decode or declares no cluster, is
\* answered with an error status and leaves the ledger as it was; any other
\* is answered 201 and puts exactly its summary before the others, so that
\* the imports listing has one more entry.
C26_ImportOnlyOnSuccess ==
    [][ret'.op = "handleClusterImport" =>
          LET r        == ret'.val.Request
              rejected == \/ r.Method # "POST"
                          \/ ~r.Form
                          \/ ~r.File
                          \/ ~r.Document.Decodes
                          \/ Len(r.Document.Clusters) = 0
              listing(items) == handleClusterImports(items, Request("GET", FALSE, FALSE, "",
                                                                     MalformedDoc)).body
          IN IF rejected
             THEN /\ ret'.n \in 400..599
                  /\ kcItems' = kcItems
                  /\ listing(kcItems') = listing(kcItems)
             ELSE /\ ret'.n = 201
                  /\ kcItems' = <<ret'.val.Body>> \o kcItems
                  /\ Len(listing(kcItems')) = Len(listing(kcItems)) + 1
                  /\ listing(kcItems')[1] = ret'.val.Body]_vars

\* C26 witness: a second import succeeded, of a document that names no
\* context, and its summary, named after the file, is the first of two.
C26_Witness ==
    /\ ret.op = "handleClusterImport"
    /\ ret.n = 201
    /\ ret.val.Body.Name = "kube.config"
    /\ Len(kcItems) = 2
    /\ kcItems[1] = ret.val.Body

(***************************************************************************)
(* Properties of the stores as functions of their arguments.               *)
(***************************************************************************)
\* C27: two stores constructed with the same now and given the same calls
\* with the same arguments hold the same records and return the same
\* results: nothing but the prior state and the arguments decides them, an
\* append without a parseable timestamp included.
C27_SameCallsSameResults ==
    /\ twin.logs = logRecords
    /\ twin.events = eventRecords
    /\ ret.op \in {"logs.ListLogs", "logs.ListEvents"} => ret.val.OfTwin = ret.val.Result

\* The operations that read a store.
ReadOps ==
    { "namespace.List", "node.List", "node.Get", "pod.List", "pod.Get", "deploy.List",
      "deploy.Get", "service.List", "service.Get", "logs.ListLogs", "logs.ListEvents",
      "logs.UniqueNamespaces", "logs.UniquePods", "logs.UniqueLevels",
      "logs.DescribeFilters", "logs.Summarize", "kubeconfig.List" }

\* C28: a read operation (List, Get, ListLogs, ListEvents, the Unique
\* projections, DescribeFilters, Summarize, the ledger's List) leaves the
\* records of every store and their order as they were: no age or status
\* is written back, and ListEvents does not reorder the stored events.
C28_ReadsChangeNothing ==
    [][ret'.op \in ReadOps =>
          UNCHANGED <<nsItems, nodeItems, podItems, deployItems, svcItems, logRecords,
                      eventRecords, kcItems>>]_vars

\* C28 witness: ListEvents answered in another order than the one the
\* store holds its events in, an appended event among them.
C28_Witness ==
    /\ ret.op = "logs.ListEvents"
    /\ Len(eventRecords) > Len(defaultEvents(StartTime))
    /\ ret.val.Events # [i \in 1..Len(eventRecords) |-> toEvent(eventRecords[i])]
    /\ eventRecords[1].Namespace = "staging"

\* C29: namespace Create and Delete leave the pods, deployments, services,
\* logs and events as they were, those of the created or deleted namespace
\* included; deployment Scale leaves the pod, service, node, namespace and
\* diagnostic stores as they were.
C29_StoresApart ==
    [][/\ ret'.op \in {"namespace.Create", "namespace.Delete"} =>
             UNCHANGED <<podItems, deployItems, svcItems, logRecords, eventRecords>>
       /\ ret'.op = "deploy.Scale" =>
             UNCHANGED <<podItems, svcItems, nodeItems, nsItems, logRecords, eventRecords>>]_vars

\* C29 witness: the namespace default was deleted while pods, deployments,
\* services, logs and events of that namespace are stored.
C29_Witness ==
    /\ ret.op = "namespace.Delete"
    /\ ret.val.Deleted
    /\ TrimSpace(ret.name) = "default"
    /\ "default" \notin DOMAIN nsItems
    /\ \E k \in DOMAIN podItems : podItems[k].Summary.Namespace = "default"
    /\ \E k \in DOMAIN deployItems : deployItems[k].Summary.Namespace = "default"
    /\ \E k \in DOMAIN svcItems : svcItems[k].Summary.Namespace = "default"
    /\ \E i \in 1..Len(logRecords) : logRecords[i].Namespace = "default"
    /\ \E i \in 1..Len(eventRecords) : eventRecords[i].Namespace = "default"

(***************************************************************************)
(* Properties of DescribeFilters beside appends.                           *)
(***************************************************************************)
\* C30: the namespaces and pods a DescribeFilters call returns are the
\* projections of one state the store was in during the call, whatever is
\* appended meanwhile, so that every pod returned is the pod of a log
\* whose namespace is returned too.
C30_FiltersOfOneState ==
    df.pc = "done" =>
        /\ \E st \in df.states :
              /\ df.namespaces = UniqueNamespaces(st[1], st[2])
              /\ df.pods = UniquePods(st[1])
        /\ \A i \in 1..Len(df.pods) :
              \E j \in 1..Len(logRecords) :
                  /\ logRecords[j].Pod = df.pods[i]
                  /\ logRecords[j].Namespace \in Elems(df.namespaces)

(***************************************************************************)
(* Properties of the namespace endpoints.                                  *)
(***************************************************************************)
\* What a request to the namespace endpoints is answered with and what it
\* does to the store, the answer to GET /api/namespaces being listStatus.
NsEndpoints(listStatus) ==
    ret'.op = "ServeHTTP" =>
        LET r       == ret'.val.Request
            status  == ret'.n
            name    == TrimSpace(TrimPrefix(r.Path, "/api/namespaces/"))
            created == TrimSpace(r.Body.Name)
        IN  IF r.Path = "/api/namespaces"
            THEN IF r.Method = "POST"
                 THEN IF ~r.Body.Readable \/ ~r.Body.Valid
                      THEN status = 400 /\ nsItems' = nsItems
                      ELSE IF \/ created = ""
                              \/ Len(created) > 63
                              \/ ~namespaceNameRegex(created)
                      THEN status = 400 /\ nsItems' = nsItems
                      ELSE IF created \in DOMAIN nsItems
                      THEN status = 409 /\ nsItems' = nsItems
                      ELSE /\ status = 201
                           /\ DOMAIN nsItems' = DOMAIN nsItems \cup {created}
                           /\ \A k \in DOMAIN nsItems : nsItems'[k] = nsItems[k]
                 ELSE IF r.Method = "GET"
                 THEN status = listStatus /\ nsItems' = nsItems
                 ELSE status = 405 /\ nsItems' = nsItems
            ELSE IF r.Method = "DELETE"
                 THEN IF name \in DOMAIN nsItems
                      THEN /\ status = 204
                           /\ DOMAIN nsItems' = DOMAIN nsItems \ {name}
                           /\ \A k \in DOMAIN nsItems' : nsItems'[k] = nsItems[k]
                      ELSE status = 404 /\ nsItems' = nsItems
                 ELSE status = 405 /\ nsItems' = nsItems

\* C31 as stated: POST /api/namespaces answers 201 when Create succeeds,
\* 400 for an invalid name or unparseable JSON and 409 for a present name;
\* DELETE /api/namespaces/{name} answers 204 when the namespace was present
\* and 404 when it was absent; any other method answers 405; the store
\* changes with 201 and 204 only.
C31_NamespaceStatusesAsStated == [][NsEndpoints(405)]_vars

\* C31: the same, GET /api/namespaces being answered 200 with the list
\* and changing nothing.
C31_NamespaceStatuses == [][NsEndpoints(200)]_vars

\* C31 witness: a DELETE of the seeded namespace default is answered 404,
\* the namespace having been deleted before.
C31_Witness ==
    /\ ret.op = "ServeHTTP"
    /\ ret.val.Request.Method = "DELETE"
    /\ ret.val.Request.Path = "/api/namespaces/default"
    /\ ret.n = 404
    /\ "default" \notin DOMAIN nsItems
    /\ "staging" \in DOMAIN nsItems

C39_MissingReplicasIsZero ==
    [][ret'.op = "handleDeploymentByName" =>
          LET r    == ret'.val.Request
              segs == Split(TrimPrefix(r.Path, "/api/deployments/"))
              hits == Named(deployItems, segs[1])
          IN  (/\ r.Method = "PUT"
               /\ Len(segs) = 2
               /\ segs[2] = "scale"
               /\ r.Body.Valid
               /\ ~r.Body.HasReplicas
               /\ hits # {}) =>
                \E k \in hits :
                    LET explicit == handleDeploymentByName(
                                        deployItems,
                                        [r EXCEPT !.Body = ScaleBody(TRUE, TRUE, 0)],
                                        ret'.now, k)
                    IN  /\ ret'.n = 200
                        /\ deployItems'[k].Summary.DesiredReplicas = 0
                        /\ deployItems'[k].Summary.ReadyReplicas = 0
                        /\ deployItems'[k].Summary.UpdatedReplicas = 0
                        /\ deployItems'[k].Revision = deployItems[k].Revision + 1
                        /\ ret'.n = explicit.status
                        /\ ret'.val.Body = explicit.body
                        /\ deployItems' = explicit.items]_vars

\* C39 witness: a PUT to frontend/scale with a body without replicas was
\* answered 200 with desired 0, frontend having had four ready replicas.
C39_Witness ==
    /\ ret.op = "handleDeploymentByName"
    /\ ret.val.Request.Method = "PUT"
    /\ ret.val.Request.Body.Valid
    /\ ~ret.val.Request.Body.HasReplicas
    /\ ret.n = 200
    /\ ret.val.Body.Summary.Name = "frontend"
    /\ ret.val.Body.Summary.DesiredReplicas = 0
    /\ ret.val.Body.Summary.ReadyReplicas = 0
    /\ ret.val.Body.Revision = 8

(***************************************************************************)
(* Properties of the namespace store beside a caller's maps.               *)
(***************************************************************************)
\* C33: the namespace store changes through Create and Delete only: a
\* caller that assigns to the labels map it passed to Create, or to the
\* Labels map of a view that Create or List returned, changes nothing of
\* what the store holds and List returns.
C33_OnlyCreateAndDelete ==
    [][nsItems' # nsItems => ret'.op \in {"namespace.Create", "namespace.Delete"}]_vars

(***************************************************************************)
(* Further properties of Scale.                                            *)
(***************************************************************************)
\* C34: a successful Scale on deployment x changes nothing but x's
\* desired, ready, updated, lastUpdate and revision: x's other fields, every
\* other deployment and the set of keys are as before.
C34_ScaleFrame ==
    [][(ret'.op = "deploy.Scale" /\ ret'.err = ErrNil) =>
          /\ DOMAIN deployItems' = DOMAIN deployItems
          /\ \A k \in DOMAIN deployItems :
                LET pre  == deployItems[k]
                    post == deployItems'[k]
                IN  IF pre.Summary.Name # ret'.name THEN post = pre
                    ELSE /\ DOMAIN post = DOMAIN pre
                         /\ DOMAIN post.Summary = DOMAIN pre.Summary
                         /\ \A f \in DOMAIN pre \ {"Summary", "LastUpdate", "Revision"} :
                               post[f] = pre[f]
                         /\ \A f \in DOMAIN pre.Summary \
                                     {"DesiredReplicas", "ReadyReplicas", "UpdatedReplicas"} :
                               post.Summary[f] = pre.Summary[f]]_vars

\* C34 witness: backend was scaled to 0, which changed its three counts,
\* while frontend had been scaled before.
C34_Witness ==
    /\ ScaleDone /\ ret.name = "backend" /\ ret.n = 0
    /\ deployItems["prod/backend"].Summary.ReadyReplicas = 0
    /\ deployItems["prod/backend"].Conditions # <<>>
    /\ nScaled["default/frontend"] = 1

\* The status a view of the record shows.
ViewStatus(rec) == decorateSummary(rec.Summary, rec.CreatedAt, StartTime).Status

\* What a successful Scale does to the ready and updated counts; a Healthy
\* deployment scaled above its ready count shows Updating when healthyUp
\* holds of its record.
ScaleNeverRaises(healthyUp(_)) ==
    (ret'.op = "deploy.Scale" /\ ret'.err = ErrNil) =>
        \E k \in Named(deployItems, ret'.name) :
            LET pre  == deployItems[k].Summary
                post == deployItems'[k].Summary
            IN  /\ post.ReadyReplicas <= pre.ReadyReplicas
                /\ post.UpdatedReplicas <= pre.UpdatedReplicas
                /\ post.ReadyReplicas <= ret'.n
                /\ post.UpdatedReplicas <= ret'.n
                /\ ret'.n >= pre.DesiredReplicas =>
                      /\ post.ReadyReplicas = pre.ReadyReplicas
                      /\ post.UpdatedReplicas = pre.UpdatedReplicas
                /\ (/\ ViewStatus(deployItems[k]) = "Healthy"
                     /\ ret'.n > pre.ReadyReplicas
                     /\ healthyUp(deployItems[k])) =>
                      ret'.val.Summary.Status = "Updating"
                /\ (pre.DesiredReplicas = 0 /\ ret'.n = 4) =>
                      /\ post.ReadyReplicas = 0
                      /\ ret'.val.Summary.Status = "Down"

\* C35 as stated: over any sequence of Scale calls the ready and updated
\* counts never increase: scaling up leaves them as they are, so that a
\* Healthy deployment scaled above its ready count shows Updating, and
\* scaling down to n and up again leaves them at most n (to 0, then to 4:
\* ready 0, Down).
C35_NeverRaisedAsStated ==
    [][LET any(rec) == TRUE IN ScaleNeverRaises(any)]_vars

\* C35: the same, the Healthy deployment that shows Updating being one
\* with a ready replica.
C35_NeverRaised ==
    [][LET hasReady(rec) == rec.Summary.ReadyReplicas > 0 IN ScaleNeverRaises(hasReady)]_vars

\* C35 witness: frontend, scaled to 0 and Healthy there, was scaled to 4:
\* no replica is ready and the detail shows Down.
C35_Witness ==
    /\ ScaleDone /\ ret.name = "frontend" /\ ret.n = 4
    /\ nScaled["default/frontend"] = 2
    /\ deployItems["default/frontend"].Summary.ReadyReplicas = 0
    /\ deployItems["default/frontend"].Summary.DesiredReplicas = 4
    /\ ret.val.Summary.Status = "Down"

\* C36: a Scale(x, n, now) made right after a successful Scale(x, n, now)
\* leaves desired, ready, updated and the status as the first left them and
\* the revision one higher.
C36_ScaleTwice ==
    [][(/\ ret.op = "deploy.Scale" /\ ret.err = ErrNil
        /\ ret'.op = "deploy.Scale"
        /\ ret'.name = ret.name /\ ret'.n = ret.n /\ ret'.now = ret.now) =>
          /\ ret'.err = ErrNil
          /\ ret'.val.Summary.DesiredReplicas = ret.val.Summary.DesiredReplicas
          /\ ret'.val.Summary.ReadyReplicas = ret.val.Summary.ReadyReplicas
          /\ ret'.val.Summary.UpdatedReplicas = ret.val.Summary.UpdatedReplicas
          /\ ret'.val.Summary.Status = ret.val.Summary.Status
          /\ ret'.val.Revision = ret.val.Revision + 1
          /\ \E k \in Named(deployItems, ret.name) :
                /\ deployItems'[k].Summary = deployItems[k].Summary
                /\ deployItems'[k].Revision = deployItems[k].Revision + 1]_vars

\* C36 witness: backend was scaled to 4 twice at the same instant.
C36_Witness ==
    /\ ScaleDone /\ ret.name = "backend" /\ ret.n = 4
    /\ nScaled["prod/backend"] = 2
    /\ deployItems["prod/backend"].Revision = 23
    /\ deployItems["prod/backend"].Summary.ReadyReplicas = 4
    /\ deployItems["prod/backend"].Summary.UpdatedReplicas = 3

(***************************************************************************)
(* Further properties of the namespace store.                              *)
(***************************************************************************)
\* Every key is the Name of its record, trimmed, a DNS label, 63 bytes at most.
KeysWellFormed ==
    \A k \in DOMAIN nsItems :
        /\ nsItems[k].Name = k
        /\ TrimSpace(k) = k
        /\ namespaceNameRegex(k)
        /\ Len(k) <= 63

\* Create and Delete work on the trimmed name.
TrimmedNameUsed ==
    LET clean == TrimSpace(ret'.name) IN
    /\ ret'.op = "namespace.Create" =>
          /\ ret'.err = ErrNil =>
                /\ clean \notin DOMAIN nsItems
                /\ DOMAIN nsItems' = DOMAIN nsItems \cup {clean}
                /\ nsItems'[clean].Name = clean
                /\ ret'.val.Name = clean
          /\ clean \in DOMAIN nsItems =>
                /\ ret'.err = namespace_ErrExists
                /\ nsItems' = nsItems
    /\ ret'.op = "namespace.Delete" =>
          /\ DOMAIN nsItems' = DOMAIN nsItems \ {clean}
          /\ ret'.val.Deleted = (clean \in DOMAIN nsItems)
          /\ \A k \in DOMAIN nsItems' : nsItems'[k] = nsItems[k]

\* C37: in every reachable state of the namespace store each key equals the
\* Name of its record, has no surrounding white space, matches the DNS-label
\* pattern and is at most 63 bytes long; Create and Delete trim the name
\* they are given: Create(" x ") stores under "x", a following Create("x")
\* fails with already-exists, Delete(" x ") removes "x".
C37_KeysAreCleanNames == [](KeysWellFormed) /\ [][TrimmedNameUsed]_vars

\* C37 witness: staging was created from a name with surrounding white
\* space, beside the name of 63 bytes, and a Create of "staging" was refused.
C37_Witness ==
    /\ ret.op = "namespace.Create" /\ ret.name = "staging"
    /\ ret.err = namespace_ErrExists
    /\ "staging" \in DOMAIN nsItems
    /\ "\tstaging\n" \notin DOMAIN nsItems
    /\ nsItems["staging"].CreatedAt = UTC([sec |-> StartTime.sec + Minute, off |-> 8 * Hour])
    /\ Name63 \in DOMAIN nsItems

\* Create, Delete and Create again, computed on the store `items`.
RoundTrip(items) ==
    \A name \in NsCreateNames, l \in NsCreateLabels, now \in Nows, now2 \in Nows :
        LET clean == TrimSpace(name)
            c  == namespace_Create(items, name, now, l)
            d  == namespace_Delete(c.items, name)
            c2 == namespace_Create(d.items, name, now2, <<>>)
        IN  c.err = ErrNil =>
              /\ d.val
              /\ d.items = items
              /\ c2.err = ErrNil
              /\ c2.items[clean].CreatedAt = UTC(now2)
              /\ c2.val.CreatedAt = FormatRFC3339(UTC(now2))
              /\ DOMAIN c2.items[clean].Labels =
                    {"kubernetes.io/metadata.name", "app.kubernetes.io/managed-by"}
              /\ c2.items[clean].Labels["kubernetes.io/metadata.name"] = clean
              /\ c2.items[clean].Labels["app.kubernetes.io/managed-by"] = "mock-dashboard"
              /\ c2.val.Labels = c2.items[clean].Labels

\* A Delete right after the successful Create of the same name undoes it.
DeleteUndoesCreate ==
    (/\ ret.op = "namespace.Create" /\ ret.err = ErrNil
     /\ ret'.op = "namespace.Delete"
     /\ TrimSpace(ret'.name) = TrimSpace(ret.name)) =>
        /\ ret'.val.Deleted
        /\ TrimSpace(ret.name) \notin DOMAIN nsItems'
        /\ namespace_Create(nsItems', ret.name, ret.now, ret.labels).items = nsItems

\* C38: for a valid name absent from the namespace store, a successful
\* Create(name, now, labels) followed by Delete(name) leaves the store as it
\* was before the Create, and a later Create(name, now2, nil) succeeds with
\* the creation instant now2 and the default labels only.
C38_CreateDeleteRoundTrip == [](RoundTrip(nsItems)) /\ [][DeleteUndoesCreate]_vars

\* C38 witness: staging, which no seed holds, was created with the labels
\* of a caller and deleted by the name it was created with: the store is
\* the one the program started with.
C38_Witness ==
    /\ ret.op = "namespace.Delete" /\ ret.name = "staging"
    /\ ret.val.Deleted
    /\ nsItems = namespace_NewStore(StartTime)
====
